---- MODULE Spec2Model ----
(***************************************************************************)
(* State-machine model of the soe-eda-runner control surface:              *)
(*   - tools/gitops-lite/gitops-lite.py : one invocation of a verb         *)
(*     (render, plan, status, apply, prune, sync, validate)                *)
(*   - tools/promotion/auto_promote.py  : one promotion run                *)
(*   - ml/pipelines/evaluate.py and auto_promote.py's evaluate : the two   *)
(*     metric evaluators, run on the same metrics files and policy         *)
(*   - render_manifests on a directory; two promotion runs on one overlay  *)
(*     file; a promotion run under both values of the auto_promote flag    *)
(*   - tools/soectl/soectl.py : the overlay summary and the sync command   *)
(* External commands (kubectl, kustomize, git, the object store) answer    *)
(* nondeterministically; their exit codes are drawn from small sets.       *)
(***************************************************************************)
EXTENDS Integers, Sequences, FiniteSets, TLC

VARIABLES
    pc,             \* position of the gitops-lite invocation
    args,           \* argparse.Namespace of the invocation
    src,            \* what --path points to and how kustomize answers
    calls,          \* kubectl invocations made so far, in order, with exit codes
    out,            \* lines printed on stdout by gitops-lite itself
    errs,           \* label-error lines printed on stderr by cmd_validate
    exitCode,       \* process exit status once pc = "done"
    errKind,        \* which raise site ended the invocation
    resources,      \* summarize_status: the filtered resource list
    idx,            \* summarize_status: loop index into resources
    diff_rc,        \* summarize_status: exit code of the pending diff
    status_counts   \* summarize_status: the Added/Changed/Same counters

gvars == <<pc, args, src, calls, out, errs, exitCode, errKind,
           resources, idx, diff_rc, status_counts>>

VARIABLES
    ppc,            \* position of the promotion run (auto_promote.py main)
    pin,            \* the run's inputs and the environment it started in
    verdict,        \* what evaluate returned: improved and reasons
    file,           \* the overlay's configuration file on disk
    index,          \* git index: the staged content of the file
    commits,        \* git history made by the run: message and content
    user_name,      \* git config user.name
    user_email,     \* git config user.email
    store,          \* objects put into the object store by the run
    plog,           \* the run's external effects, in order
    pout,           \* final message printed by main
    pnotes,         \* "[promotion] ..." lines printed by record_promotion
    pexit,          \* exit status once ppc = "done"
    perr            \* which failure ended the run

pvars == <<ppc, pin, verdict, file, index, commits, user_name, user_email,
           store, plog, pout, pnotes, pexit, perr>>

VARIABLES
    ein,            \* the two metrics files and the policy document compared
    promo_eval,     \* auto_promote.py: the loaded thresholds and the verdict
    pipeline_eval   \* evaluate.py: the loaded thresholds and the result

evars == <<ein, promo_eval, pipeline_eval>>

VARIABLES
    dir_listing,    \* the file names of --path in the order the OS lists them
    dir_rendered    \* what render_manifests made of that directory

rvars == <<dir_listing, dir_rendered>>

VARIABLES
    soe_in,         \* soectl: the executables found and what the overlay renders to
    soe_out         \* soectl: the commands run and the summary returned

svars == <<soe_in, soe_out>>

VARIABLES
    wt_file,        \* two runs: the overlay file in the working tree
    staged,         \* two runs: the file as the git index holds it
    head,           \* two runs: the file as the last commit holds it
    history,        \* two runs: the commits made, in order
    runs,           \* two runs: position, artifact URI and text read of each
    serialized      \* two runs: whether the caller runs them one after the other

cvars == <<wt_file, staged, head, history, runs, serialized>>

VARIABLES
    flag_in,        \* policy flag: the inputs and external outcomes of a run
    flag_out        \* policy flag: the run with auto_promote true, and false

fvars == <<flag_in, flag_out>>

VARIABLES
    sync_in,        \* soectl sync: the options of the invocation
    sync_st         \* soectl sync: position, commands run, lines printed, exit

yvars == <<sync_in, sync_st>>

vars == <<gvars, pvars, evars, rvars, svars, cvars, fvars, yvars>>

\* what an action of one program leaves alone: the other programs' state
beyond_gitops == <<pvars, evars, rvars, svars, cvars, fvars, yvars>>
beyond_promo == <<gvars, evars, rvars, svars, cvars, fvars, yvars>>
beyond_eval == <<gvars, pvars, rvars, svars, cvars, fvars, yvars>>
beyond_render == <<gvars, pvars, evars, svars, cvars, fvars, yvars>>
beyond_soectl == <<gvars, pvars, evars, rvars, cvars, fvars, yvars>>
beyond_runs == <<gvars, pvars, evars, rvars, svars, fvars, yvars>>
beyond_sync == <<gvars, pvars, evars, rvars, svars, cvars, fvars>>
beyond_flag == <<gvars, pvars, evars, rvars, svars, cvars, yvars>>

\* ---------------------------------------------------------------- bounds

\* longest manifest (number of YAML documents) explored
MaxDocs == 2

\* ------------------------------------------------------------ data model

\* Python's None, and the value of an absent mapping key
None == "None"

\* Python truthiness of an optional string
Truthy(s) == s # None /\ s # ""

PartOfKey == "app.kubernetes.io/part-of"
ManagedKey == "gitops-lite"

REQUIRED_LABELS ==
    << [key |-> PartOfKey, expected |-> "soe-eda-runner"],
       [key |-> ManagedKey, expected |-> "managed"] >>

\* labels mappings a resource may carry
GoodLabels == (PartOfKey :> "soe-eda-runner") @@ (ManagedKey :> "managed")
WrongPartOf == (PartOfKey :> "other") @@ (ManagedKey :> "managed")
NoManaged == (PartOfKey :> "soe-eda-runner")
NoLabels == [k \in {} |-> ""]

\* One YAML document as yaml.safe_load_all yields it.  dict = FALSE is a
\* document that is not a mapping; meta tells whether the "metadata" key is a
\* mapping, present with a null value, or absent.
MkDoc(kind, meta, name, ns, labels) ==
    [dict |-> TRUE, kind |-> kind, meta |-> meta, name |-> name,
     ns |-> ns, labels |-> labels]

ScalarDoc ==
    [dict |-> FALSE, kind |-> None, meta |-> "absent", name |-> None,
     ns |-> None, labels |-> NoLabels]

DocUniverse ==
    { MkDoc("Deployment", "dict", "web", "prod", GoodLabels),
      MkDoc("Service", "dict", "web", None, WrongPartOf),
      MkDoc("ConfigMap", "dict", "cfg", "prod", NoManaged),
      MkDoc("Secret", "dict", "tok", None, NoLabels),
      MkDoc(None, "dict", "orphan", "prod", GoodLabels),
      MkDoc("Job", "absent", None, None, NoLabels),
      MkDoc("Pod", "null", None, None, NoLabels),
      ScalarDoc }

SeqsUpTo(S, n) == UNION { [1..k -> S] : k \in 0..n }

Manifests == SeqsUpTo(DocUniverse, MaxDocs)

\* exit codes an external command may return
ExitCodes == {0, 1, 2}

Commands == {"render", "plan", "status", "apply", "prune", "sync", "validate"}

Selectors == {None, "", "gitops-lite=managed"}

\* ------------------------------------------------------- pure functions

\* dict.get(key) on a labels mapping (None when the key is absent)
LabelGet(labels, key) ==
    IF key \in DOMAIN labels THEN labels[key] ELSE None

\* render_manifests: the rendered manifest, or the SystemExit it raises
render_manifests(s, use_kustomize) ==
    IF use_kustomize
    THEN IF s.kustomize_rc = -1
         THEN [ok |-> FALSE, code |-> 1, manifest |-> <<>>]
         ELSE IF s.kustomize_rc # 0
         THEN [ok |-> FALSE, code |-> s.kustomize_rc, manifest |-> <<>>]
         ELSE [ok |-> TRUE, code |-> 0, manifest |-> s.docs]
    ELSE IF s.path = "dir"
    THEN IF s.nfiles = 0
         THEN [ok |-> FALSE, code |-> 1, manifest |-> <<>>]
         ELSE [ok |-> TRUE, code |-> 0, manifest |-> s.docs]
    ELSE IF s.path = "missing"
    THEN [ok |-> FALSE, code |-> 1, manifest |-> <<>>]
    ELSE [ok |-> TRUE, code |-> 0, manifest |-> s.docs]

\* build_apply_args without the selector check of lines 92-93
build_apply_args_unchecked(a, prune) ==
    LET base == <<"apply", "-f", "-">>
        ss == IF a.server_side THEN base \o <<"--server-side">> ELSE base
    IN  IF prune
        THEN [ok |-> TRUE, argv |-> ss \o <<"--prune", "-l", a.selector>>]
        ELSE [ok |-> TRUE, argv |-> ss]

\* build_apply_args: the kubectl argument vector, or the SystemExit it raises
build_apply_args(a, prune) ==
    LET base == <<"apply", "-f", "-">>
        ss == IF a.server_side THEN base \o <<"--server-side">> ELSE base
    IN  IF prune
        THEN IF ~Truthy(a.selector)
             THEN [ok |-> FALSE, argv |-> <<>>]
             ELSE [ok |-> TRUE, argv |-> ss \o <<"--prune", "-l", a.selector>>]
        ELSE [ok |-> TRUE, argv |-> ss]

\* the error lines of one document, one per required label in REQUIRED_LABELS
\* order; position is the document's index in the manifest (not printed)
RECURSIVE doc_label_errors(_, _, _)
doc_label_errors(doc, position, k) ==
    IF k > Len(REQUIRED_LABELS) THEN <<>>
    ELSE LET req == REQUIRED_LABELS[k]
             name == IF doc.meta = "dict" /\ doc.name # None
                     THEN doc.name ELSE "<unknown>"
             ns == IF doc.meta = "dict" /\ doc.ns # None
                   THEN doc.ns ELSE "cluster"
             labels == IF doc.meta = "dict" THEN doc.labels ELSE NoLabels
             rest == doc_label_errors(doc, position, k + 1)
         IN  IF LabelGet(labels, req.key) # req.expected
             THEN <<[doc |-> position, ns |-> ns, name |-> name,
                     key |-> req.key, expected |-> req.expected]>> \o rest
             ELSE rest

RECURSIVE validate_labels_from(_, _)
validate_labels_from(docs, i) ==
    IF i > Len(docs) THEN <<>>
    ELSE (IF docs[i].dict THEN doc_label_errors(docs[i], i, 1) ELSE <<>>)
         \o validate_labels_from(docs, i + 1)

\* validate_labels that stops at a document's first missing label
RECURSIVE validate_labels_first_only(_)
validate_labels_first_only(docs) ==
    IF docs = <<>> THEN <<>>
    ELSE LET n == Len(docs)
             e == IF docs[n].dict THEN doc_label_errors(docs[n], n, 1) ELSE <<>>
         IN  validate_labels_first_only(SubSeq(docs, 1, n - 1))
             \o (IF e = <<>> THEN <<>> ELSE <<e[1]>>)

\* validate_labels: the ordered list of error lines of a manifest
validate_labels(docs) == validate_labels_from(docs, 1)

\* summarize_status, line 136: the documents that are mappings with a kind
kind_resources(docs) ==
    SelectSeq(docs, LAMBDA d : d.dict /\ Truthy(d.kind))

\* classify that looks at the diff before the existence of the resource
classify_diff_first(drc, exists) ==
    IF drc # 0 THEN "Changed"
    ELSE IF exists THEN "Same"
    ELSE "Added"

\* summarize_status, lines 169-174: the status of one resource
classify(drc, exists) ==
    IF drc = 0 /\ exists THEN "Same"
    ELSE IF ~exists THEN "Added"
    ELSE "Changed"

ZeroCounts == [Added |-> 0, Changed |-> 0, Same |-> 0]

\* ------------------------------------------------------------- actions

\* raise SystemExit(code), or normal return when code = 0
Finish(code, kind) ==
    /\ pc' = "done"
    /\ exitCode' = code
    /\ errKind' = kind

\* KubectlRunner.run with check=False: the call is logged with its exit code
Called(argv, input, rc) ==
    calls' = Append(calls, [argv |-> argv, input |-> input, rc |-> rc])

Sources ==
    { [path |-> "file", nfiles |-> 1, kustomize_rc |-> 0, docs |-> m] :
          m \in Manifests }
    \cup { [path |-> "dir", nfiles |-> 1, kustomize_rc |-> 0, docs |-> m] :
          m \in Manifests }
    \cup { [path |-> "dir", nfiles |-> 0, kustomize_rc |-> 0, docs |-> <<>>],
           [path |-> "missing", nfiles |-> 0, kustomize_rc |-> 0, docs |-> <<>>] }

KustomizeSources ==
    { [path |-> "dir", nfiles |-> 1, kustomize_rc |-> 0, docs |-> m] :
          m \in Manifests }
    \cup { [path |-> "dir", nfiles |-> 1, kustomize_rc |-> rc, docs |-> <<>>] :
          rc \in {-1, 1} }

\* main: parse the command line and dispatch to the verb's function
main ==
    /\ pc = "init"
    /\ \E cmd \in Commands, k \in BOOLEAN, ss \in BOOLEAN,
          ep \in BOOLEAN, sel \in Selectors :
          /\ args' = [command |-> cmd, kustomize |-> k, server_side |-> ss,
                      enable_prune |-> ep, selector |-> sel]
          /\ src' \in (IF k THEN KustomizeSources ELSE Sources)
    /\ pc' = "dispatch"
    /\ UNCHANGED <<calls, out, errs, exitCode, errKind, resources, idx,
                   diff_rc, status_counts>>
    /\ UNCHANGED beyond_gitops

Rendered == render_manifests(src, args.kustomize)

\* apply_manifest that returns normally whatever the exit code is
apply_manifest_ignore_rc(manifest, prune, next) ==
    LET a == build_apply_args(args, prune)
    IN  IF ~a.ok
        THEN Finish(1, "config") /\ UNCHANGED calls
        ELSE \E rc \in ExitCodes :
               /\ Called(a.argv, manifest, rc)
               /\ IF next = "done"
                  THEN Finish(rc, IF rc = 0 THEN "none" ELSE "cluster")
                  ELSE pc' = next /\ UNCHANGED <<exitCode, errKind>>

\* apply_manifest that raises SystemExit(1) on every non-zero exit code
apply_manifest_exit_one(manifest, prune, next) ==
    LET a == build_apply_args(args, prune)
    IN  IF ~a.ok
        THEN Finish(1, "config") /\ UNCHANGED calls
        ELSE \E rc \in ExitCodes :
               /\ Called(a.argv, manifest, rc)
               /\ IF rc # 0
                  THEN Finish(1, "cluster")
                  ELSE IF next = "done"
                       THEN Finish(0, "none")
                       ELSE pc' = next /\ UNCHANGED <<exitCode, errKind>>

\* apply_manifest: one kubectl apply; a non-zero exit code raises SystemExit
apply_manifest(manifest, prune, next) ==
    LET a == build_apply_args(args, prune)
    IN  IF ~a.ok
        THEN Finish(1, "config") /\ UNCHANGED calls
        ELSE \E rc \in ExitCodes :
               /\ Called(a.argv, manifest, rc)
               /\ IF rc # 0
                  THEN Finish(rc, "cluster")
                  ELSE IF next = "done"
                       THEN Finish(0, "none")
                       ELSE pc' = next /\ UNCHANGED <<exitCode, errKind>>

\* prune_manifest that issues a failed call a second time
prune_manifest_retry(manifest) ==
    LET a == build_apply_args(args, TRUE)
    IN  IF ~a.ok
        THEN Finish(1, "config") /\ UNCHANGED calls
        ELSE \E rc \in ExitCodes, rc2 \in ExitCodes :
               IF rc = 0
               THEN Called(a.argv, manifest, rc) /\ Finish(0, "none")
               ELSE /\ calls' = calls \o
                         <<[argv |-> a.argv, input |-> manifest, rc |-> rc],
                           [argv |-> a.argv, input |-> manifest, rc |-> rc2]>>
                    /\ Finish(rc2, IF rc2 = 0 THEN "none" ELSE "cluster")

\* prune_manifest: one kubectl apply --prune -l <selector>
prune_manifest(manifest) ==
    LET a == build_apply_args(args, TRUE)
    IN  IF ~a.ok
        THEN Finish(1, "config") /\ UNCHANGED calls
        ELSE \E rc \in ExitCodes :
               /\ Called(a.argv, manifest, rc)
               /\ IF rc # 0 THEN Finish(rc, "cluster") ELSE Finish(0, "none")

cmd_render ==
    /\ pc = "dispatch" /\ args.command = "render"
    /\ IF ~Rendered.ok
       THEN Finish(Rendered.code, "render") /\ UNCHANGED out
       ELSE Finish(0, "none") /\ out' = Append(out, <<"manifest">>)
    /\ UNCHANGED <<args, src, calls, errs, resources, idx, diff_rc,
                   status_counts>>
    /\ UNCHANGED beyond_gitops

\* cmd_plan that treats every non-zero diff exit code as fatal
cmd_plan_strict ==
    /\ pc = "dispatch" /\ args.command = "plan"
    /\ IF ~Rendered.ok
       THEN Finish(Rendered.code, "render") /\ UNCHANGED calls
       ELSE \E rc \in ExitCodes :
              /\ Called(<<"diff", "-f", "-">>, Rendered.manifest, rc)
              /\ IF rc # 0 THEN Finish(rc, "cluster") ELSE Finish(0, "none")
    /\ UNCHANGED <<args, src, out, errs, resources, idx, diff_rc, status_counts>>
    /\ UNCHANGED beyond_gitops

\* cmd_plan with run_plan: kubectl diff on the whole manifest
cmd_plan ==
    /\ pc = "dispatch" /\ args.command = "plan"
    /\ IF ~Rendered.ok
       THEN Finish(Rendered.code, "render") /\ UNCHANGED calls
       ELSE \E rc \in ExitCodes :
              /\ Called(<<"diff", "-f", "-">>, Rendered.manifest, rc)
              /\ IF rc \notin {0, 1}
                 THEN Finish(rc, "cluster")
                 ELSE Finish(0, "none")
    /\ UNCHANGED <<args, src, out, errs, resources, idx, diff_rc,
                   status_counts>>
    /\ UNCHANGED beyond_gitops

cmd_apply ==
    /\ pc = "dispatch" /\ args.command = "apply"
    /\ IF ~Rendered.ok
       THEN Finish(Rendered.code, "render") /\ UNCHANGED calls
       ELSE apply_manifest(Rendered.manifest, args.enable_prune, "done")
    /\ UNCHANGED <<args, src, out, errs, resources, idx, diff_rc,
                   status_counts>>
    /\ UNCHANGED beyond_gitops

cmd_prune ==
    /\ pc = "dispatch" /\ args.command = "prune"
    /\ IF ~Rendered.ok
       THEN Finish(Rendered.code, "render") /\ UNCHANGED calls
       ELSE prune_manifest(Rendered.manifest)
    /\ UNCHANGED <<args, src, out, errs, resources, idx, diff_rc,
                   status_counts>>
    /\ UNCHANGED beyond_gitops

\* cmd_sync, lines 233-235: render, then apply without pruning
cmd_sync ==
    /\ pc = "dispatch" /\ args.command = "sync"
    /\ IF ~Rendered.ok
       THEN Finish(Rendered.code, "render") /\ UNCHANGED calls
       ELSE apply_manifest(Rendered.manifest, FALSE, "sync_prune")
    /\ UNCHANGED <<args, src, out, errs, resources, idx, diff_rc,
                   status_counts>>
    /\ UNCHANGED beyond_gitops

\* cmd_sync_prune that deletes what was applied when the prune call fails
cmd_sync_prune_rollback ==
    /\ pc = "sync_prune"
    /\ IF args.enable_prune
       THEN LET a == build_apply_args(args, TRUE)
            IN  IF ~a.ok
                THEN Finish(1, "config") /\ UNCHANGED calls
                ELSE \E rc \in ExitCodes, rc2 \in ExitCodes :
                       IF rc = 0
                       THEN /\ Called(a.argv, Rendered.manifest, rc)
                            /\ Finish(0, "none")
                       ELSE /\ calls' = calls \o
                                 <<[argv |-> a.argv,
                                    input |-> Rendered.manifest, rc |-> rc],
                                   [argv |-> <<"delete", "-f", "-">>,
                                    input |-> Rendered.manifest, rc |-> rc2]>>
                            /\ Finish(rc, "cluster")
       ELSE Finish(0, "none") /\ UNCHANGED calls
    /\ UNCHANGED <<args, src, out, errs, resources, idx, diff_rc,
                   status_counts>>
    /\ UNCHANGED beyond_gitops

\* cmd_sync, lines 236-237: after a returned apply, prune if enabled
cmd_sync_prune ==
    /\ pc = "sync_prune"
    /\ IF args.enable_prune
       THEN prune_manifest(Rendered.manifest)
       ELSE Finish(0, "none") /\ UNCHANGED calls
    /\ UNCHANGED <<args, src, out, errs, resources, idx, diff_rc,
                   status_counts>>
    /\ UNCHANGED beyond_gitops

\* cmd_validate that prints the label errors and goes on to the dry run
cmd_validate_lenient ==
    /\ pc = "dispatch" /\ args.command = "validate"
    /\ IF ~Rendered.ok
       THEN Finish(Rendered.code, "render") /\ UNCHANGED <<calls, errs>>
       ELSE /\ errs' = errs \o validate_labels(Rendered.manifest)
            /\ \E rc \in ExitCodes :
                 /\ Called(<<"apply", "--dry-run=server", "-f", "-">>,
                           Rendered.manifest, rc)
                 /\ IF rc # 0 THEN Finish(rc, "cluster")
                    ELSE Finish(0, "none")
    /\ UNCHANGED <<args, src, out, resources, idx, diff_rc, status_counts>>
    /\ UNCHANGED beyond_gitops

\* cmd_validate whose dry run is evaluated by the client only
cmd_validate_client_dry_run ==
    /\ pc = "dispatch" /\ args.command = "validate"
    /\ IF ~Rendered.ok
       THEN Finish(Rendered.code, "render") /\ UNCHANGED <<calls, errs>>
       ELSE LET label_errors == validate_labels(Rendered.manifest)
            IN  IF label_errors # <<>>
                THEN /\ errs' = errs \o label_errors
                     /\ Finish(1, "validation")
                     /\ UNCHANGED calls
                ELSE /\ UNCHANGED errs
                     /\ \E rc \in ExitCodes :
                          /\ Called(<<"apply", "--dry-run=client", "-f", "-">>,
                                    Rendered.manifest, rc)
                          /\ IF rc # 0 THEN Finish(rc, "cluster")
                             ELSE Finish(0, "none")
    /\ UNCHANGED <<args, src, out, resources, idx, diff_rc, status_counts>>
    /\ UNCHANGED beyond_gitops

\* cmd_validate whose apply lost the dry-run flag
cmd_validate_without_dry_run ==
    /\ pc = "dispatch" /\ args.command = "validate"
    /\ IF ~Rendered.ok
       THEN Finish(Rendered.code, "render") /\ UNCHANGED <<calls, errs>>
       ELSE LET label_errors == validate_labels(Rendered.manifest)
            IN  IF label_errors # <<>>
                THEN /\ errs' = errs \o label_errors
                     /\ Finish(1, "validation")
                     /\ UNCHANGED calls
                ELSE /\ UNCHANGED errs
                     /\ \E rc \in ExitCodes :
                          /\ Called(<<"apply", "-f", "-">>,
                                    Rendered.manifest, rc)
                          /\ IF rc # 0 THEN Finish(rc, "cluster")
                             ELSE Finish(0, "none")
    /\ UNCHANGED <<args, src, out, resources, idx, diff_rc, status_counts>>
    /\ UNCHANGED beyond_gitops

\* cmd_validate: label check, then a server-side dry-run apply
cmd_validate ==
    /\ pc = "dispatch" /\ args.command = "validate"
    /\ IF ~Rendered.ok
       THEN Finish(Rendered.code, "render") /\ UNCHANGED <<calls, errs>>
       ELSE LET label_errors == validate_labels(Rendered.manifest)
            IN  IF label_errors # <<>>
                THEN /\ errs' = errs \o label_errors
                     /\ Finish(1, "validation")
                     /\ UNCHANGED calls
                ELSE /\ UNCHANGED errs
                     /\ \E rc \in ExitCodes :
                          /\ Called(<<"apply", "--dry-run=server", "-f", "-">>,
                                    Rendered.manifest, rc)
                          /\ IF rc # 0 THEN Finish(rc, "cluster")
                             ELSE Finish(0, "none")
    /\ UNCHANGED <<args, src, out, resources, idx, diff_rc, status_counts>>
    /\ UNCHANGED beyond_gitops

\* cmd_status and summarize_status up to the loop (lines 214-141)
cmd_status ==
    /\ pc = "dispatch" /\ args.command = "status"
    /\ IF ~Rendered.ok
       THEN /\ Finish(Rendered.code, "render")
            /\ UNCHANGED <<out, resources, idx, status_counts>>
       ELSE LET rs == kind_resources(Rendered.manifest)
            IN  IF rs = <<>>
                THEN /\ out' = Append(out, <<"no-resources">>)
                     /\ Finish(0, "none")
                     /\ UNCHANGED <<resources, idx, status_counts>>
                ELSE /\ resources' = rs
                     /\ idx' = 1
                     /\ status_counts' = ZeroCounts
                     /\ pc' = "status_loop"
                     /\ UNCHANGED <<out, exitCode, errKind>>
    /\ UNCHANGED <<args, src, calls, errs, diff_rc>>
    /\ UNCHANGED beyond_gitops

\* summarize_status, line 144-145: metadata is null, .get raises AttributeError
status_crash ==
    /\ pc = "status_loop" /\ idx <= Len(resources)
    /\ resources[idx].meta = "null"
    /\ Finish(1, "crash")
    /\ UNCHANGED <<args, src, calls, out, errs, resources, idx, diff_rc,
                   status_counts>>
    /\ UNCHANGED beyond_gitops

\* status_skip that counts the skipped resource as Added
status_skip_counted ==
    /\ pc = "status_loop" /\ idx <= Len(resources)
    /\ resources[idx].meta # "null"
    /\ ~Truthy(resources[idx].name) \/ ~Truthy(resources[idx].kind)
    /\ idx' = idx + 1
    /\ status_counts' = [status_counts EXCEPT !.Added = @ + 1]
    /\ UNCHANGED <<pc, args, src, calls, out, errs, exitCode, errKind,
                   resources, diff_rc>>
    /\ UNCHANGED beyond_gitops

\* summarize_status, lines 148-149: a resource without a name is skipped
status_skip ==
    /\ pc = "status_loop" /\ idx <= Len(resources)
    /\ resources[idx].meta # "null"
    /\ ~Truthy(resources[idx].name) \/ ~Truthy(resources[idx].kind)
    /\ idx' = idx + 1
    /\ UNCHANGED <<pc, args, src, calls, out, errs, exitCode, errKind,
                   resources, diff_rc, status_counts>>
    /\ UNCHANGED beyond_gitops

\* status_diff that takes every non-zero exit code as "differences exist"
status_diff_swallow ==
    /\ pc = "status_loop" /\ idx <= Len(resources)
    /\ resources[idx].meta # "null"
    /\ Truthy(resources[idx].name) /\ Truthy(resources[idx].kind)
    /\ \E rc \in ExitCodes :
         /\ Called(<<"diff", "-f", "-">>, <<resources[idx]>>, rc)
         /\ diff_rc' = rc
         /\ pc' = "status_get"
         /\ UNCHANGED <<exitCode, errKind>>
    /\ UNCHANGED <<args, src, out, errs, resources, idx, status_counts>>
    /\ UNCHANGED beyond_gitops

\* summarize_status, lines 151-156: kubectl diff of the single resource
status_diff ==
    /\ pc = "status_loop" /\ idx <= Len(resources)
    /\ resources[idx].meta # "null"
    /\ Truthy(resources[idx].name) /\ Truthy(resources[idx].kind)
    /\ \E rc \in ExitCodes :
         /\ Called(<<"diff", "-f", "-">>, <<resources[idx]>>, rc)
         /\ IF rc \notin {0, 1}
            THEN Finish(rc, "cluster") /\ UNCHANGED diff_rc
            ELSE /\ diff_rc' = rc
                 /\ pc' = "status_get"
                 /\ UNCHANGED <<exitCode, errKind>>
    /\ UNCHANGED <<args, src, out, errs, resources, idx, status_counts>>
    /\ UNCHANGED beyond_gitops

\* status_get that trusts a clean diff and spares the get call
status_get_spared ==
    /\ pc = "status_get"
    /\ LET r == resources[idx]
           get_args == IF Truthy(r.ns)
                       THEN <<"get", r.kind, r.name, "-n", r.ns>>
                       ELSE <<"get", r.kind, r.name>>
       IN  \E rc \in ExitCodes :
             /\ IF diff_rc = 0
                THEN UNCHANGED calls
                ELSE Called(get_args, <<>>, rc)
             /\ IF rc \notin {0, 1} /\ diff_rc # 0
                THEN /\ Finish(rc, "cluster")
                     /\ UNCHANGED <<out, idx, status_counts>>
                ELSE LET status == classify(diff_rc, rc = 0 \/ diff_rc = 0)
                     IN  /\ status_counts' =
                               [status_counts EXCEPT ![status] = @ + 1]
                         /\ out' = Append(out, <<"status", r.kind,
                                     IF Truthy(r.ns) THEN r.ns ELSE "",
                                     r.name, status>>)
                         /\ idx' = idx + 1
                         /\ pc' = "status_loop"
                         /\ UNCHANGED <<exitCode, errKind>>
    /\ UNCHANGED <<args, src, errs, resources, diff_rc>>
    /\ UNCHANGED beyond_gitops

\* summarize_status, lines 157-177: kubectl get, classification, status line
status_get ==
    /\ pc = "status_get"
    /\ LET r == resources[idx]
           get_args == IF Truthy(r.ns)
                       THEN <<"get", r.kind, r.name, "-n", r.ns>>
                       ELSE <<"get", r.kind, r.name>>
       IN  \E rc \in ExitCodes :
             /\ Called(get_args, <<>>, rc)
             /\ IF rc \notin {0, 1}
                THEN /\ Finish(rc, "cluster")
                     /\ UNCHANGED <<out, idx, status_counts>>
                ELSE LET status == classify(diff_rc, rc = 0)
                     IN  /\ status_counts' =
                               [status_counts EXCEPT ![status] = @ + 1]
                         /\ out' = Append(out, <<"status", r.kind,
                                     IF Truthy(r.ns) THEN r.ns ELSE "",
                                     r.name, status>>)
                         /\ idx' = idx + 1
                         /\ pc' = "status_loop"
                         /\ UNCHANGED <<exitCode, errKind>>
    /\ UNCHANGED <<args, src, errs, resources, diff_rc>>
    /\ UNCHANGED beyond_gitops

\* summarize_status, lines 179-180: the summary line after the loop
status_summary ==
    /\ pc = "status_loop" /\ idx > Len(resources)
    /\ out' = Append(out, <<"summary", status_counts.Added,
                            status_counts.Changed, status_counts.Same>>)
    /\ Finish(0, "none")
    /\ UNCHANGED <<args, src, calls, errs, resources, idx, diff_rc,
                   status_counts>>
    /\ UNCHANGED beyond_gitops

GitopsInit ==
    /\ pc = "init"
    /\ args = [command |-> "render", kustomize |-> FALSE, server_side |-> FALSE,
               enable_prune |-> FALSE, selector |-> None]
    /\ src = [path |-> "missing", nfiles |-> 0, kustomize_rc |-> 0, docs |-> <<>>]
    /\ calls = <<>>
    /\ out = <<>>
    /\ errs = <<>>
    /\ exitCode = 0
    /\ errKind = "none"
    /\ resources = <<>>
    /\ idx = 0
    /\ diff_rc = 0
    /\ status_counts = ZeroCounts

\* ------------------------------------------------- promotion: data

\* IEEE floats as far as evaluate needs them: finite values (integers in the
\* unit of the metric), the infinities and NaN
Fin(n) == [k |-> "fin", v |-> n]
PosInf == [k |-> "inf", v |-> 0]
NegInf == [k |-> "ninf", v |-> 0]
NaN == [k |-> "nan", v |-> 0]

XNeg(a) ==
    IF a.k = "fin" THEN Fin(0 - a.v)
    ELSE IF a.k = "inf" THEN NegInf
    ELSE IF a.k = "ninf" THEN PosInf
    ELSE NaN

XSub(a, b) ==
    IF a.k = "nan" \/ b.k = "nan" THEN NaN
    ELSE IF a.k = "fin" /\ b.k = "fin" THEN Fin(a.v - b.v)
    ELSE IF a.k = "fin" THEN XNeg(b)
    ELSE IF b.k = "fin" THEN a
    ELSE IF a.k = b.k THEN NaN
    ELSE a

\* a >= b on floats: false as soon as one side is NaN
XGe(a, b) ==
    IF a.k = "nan" \/ b.k = "nan" THEN FALSE
    ELSE IF a.k = "inf" \/ b.k = "ninf" THEN TRUE
    ELSE IF a.k = "ninf" \/ b.k = "inf" THEN FALSE
    ELSE a.v >= b.v

\* what float() makes of a value it rejects: ValueError or TypeError
Unparsable == [k |-> "bad", v |-> 0]

\* a scalar as yaml.safe_load returns it: its Python type and what float()
\* makes of it.  YNum is an int or a float (".inf" and ".nan" are floats),
\* YStr a str: YStr(Fin(0)) is the text "0", YStr(Unparsable) a text such
\* as "high"
YNum(x) == [t |-> "num", x |-> x]
YStr(x) == [t |-> "str", x |-> x]

\* isinstance(v, (int, float))
IsIntOrFloat(y) == y.t = "num"

\* float(v)
ToFloat(y) == y.x

\* dict.get(key, default)
DictGet(d, key, default) == IF key \in DOMAIN d THEN d[key] ELSE default

\* r2 values are in hundredths, rmse values in units
DefaultR2MinGain == 1
DefaultRmseMinDrop == 100

EmptyMap == [k \in {} |-> 0]

DEFAULT_POLICY ==
    [thresholds |-> ("r2_min_gain" :> YNum(Fin(DefaultR2MinGain)))
                    @@ ("rmse_min_drop" :> YNum(Fin(DefaultRmseMinDrop))),
     actions |-> ("auto_promote" :> TRUE) @@ ("target_overlay" :> "dev")]

\* the policy document ml/policies/promotion.yaml, if there is one
NoPolicyDoc == [exists |-> FALSE, thresholds |-> EmptyMap, actions |-> EmptyMap]

PolicyDocs ==
    { NoPolicyDoc,
      [exists |-> TRUE, thresholds |-> ("r2_min_gain" :> YNum(Fin(0))),
       actions |-> ("auto_promote" :> FALSE)],
      [exists |-> TRUE, thresholds |-> ("r2_min_gain" :> YStr(Unparsable)),
       actions |-> EmptyMap],
      [exists |-> TRUE, thresholds |-> EmptyMap,
       actions |-> ("target_overlay" :> "prod")] }

\* load_policy: the document's sections merged over the defaults
load_policy(doc) ==
    IF doc.exists
    THEN [thresholds |-> doc.thresholds @@ DEFAULT_POLICY.thresholds,
          actions |-> doc.actions @@ DEFAULT_POLICY.actions]
    ELSE DEFAULT_POLICY

\* metrics snapshots: mappings from metric names to numbers; load_metrics of
\* a missing file is the empty mapping
Snapshot(r2, rmse) == ("r2" :> r2) @@ ("rmse" :> rmse)

Currents == { EmptyMap, Snapshot(80, 600) }

Candidates ==
    { EmptyMap, Snapshot(80, 600), Snapshot(82, 480), Snapshot(85, 550),
      ("r2" :> 90) }

\* dict.get(key, default) followed by float()
MetricGet(m, key, default) ==
    IF key \in DOMAIN m THEN Fin(m[key]) ELSE default

Reason(label, delta) == [label |-> label, delta |-> delta]

\* evaluate when float() rejects a threshold it needs: the exception
Raised == [raised |-> TRUE, improved |-> FALSE, reasons |-> <<>>]

Verdict(improved, reasons) ==
    [raised |-> FALSE, improved |-> improved, reasons |-> reasons]

\* evaluate that promotes as soon as one of the two conditions holds
evaluate_either(current, candidate, thresholds) ==
    IF DOMAIN candidate = {}
    THEN Verdict(FALSE, <<Reason("candidate metrics unavailable", Fin(0))>>)
    ELSE IF DOMAIN current = {}
    THEN Verdict(TRUE, <<Reason("no current model", Fin(0))>>)
    ELSE LET r2_gain == XSub(MetricGet(candidate, "r2", Fin(0)),
                             MetricGet(current, "r2", Fin(0)))
             rmse_delta == XSub(MetricGet(candidate, "rmse", PosInf),
                                MetricGet(current, "rmse", PosInf))
             rmse_drop == XNeg(rmse_delta)
             r2_min == ToFloat(DictGet(thresholds, "r2_min_gain",
                                       YNum(Fin(DefaultR2MinGain))))
             rmse_min == ToFloat(DictGet(thresholds, "rmse_min_drop",
                                         YNum(Fin(DefaultRmseMinDrop))))
             reasons == <<Reason("r2", r2_gain), Reason("rmse", rmse_delta)>>
         IN  IF r2_min = Unparsable THEN Raised
             ELSE IF XGe(r2_gain, r2_min) THEN Verdict(TRUE, reasons)
             ELSE IF rmse_min = Unparsable THEN Raised
             ELSE Verdict(XGe(rmse_drop, rmse_min), reasons)

\* evaluate that judges an empty candidate like any other snapshot
evaluate_current_first(current, candidate, thresholds) ==
    IF DOMAIN current = {}
    THEN Verdict(TRUE, <<Reason("no current model", Fin(0))>>)
    ELSE IF DOMAIN candidate = {}
    THEN Verdict(FALSE, <<Reason("candidate metrics unavailable", Fin(0))>>)
    ELSE LET r2_gain == XSub(MetricGet(candidate, "r2", Fin(0)),
                             MetricGet(current, "r2", Fin(0)))
             rmse_delta == XSub(MetricGet(candidate, "rmse", PosInf),
                                MetricGet(current, "rmse", PosInf))
             rmse_drop == XNeg(rmse_delta)
             r2_min == ToFloat(DictGet(thresholds, "r2_min_gain",
                                       YNum(Fin(DefaultR2MinGain))))
             rmse_min == ToFloat(DictGet(thresholds, "rmse_min_drop",
                                         YNum(Fin(DefaultRmseMinDrop))))
             reasons == <<Reason("r2", r2_gain), Reason("rmse", rmse_delta)>>
         IN  IF r2_min = Unparsable THEN Raised
             ELSE IF ~XGe(r2_gain, r2_min) THEN Verdict(FALSE, reasons)
             ELSE IF rmse_min = Unparsable THEN Raised
             ELSE Verdict(XGe(rmse_drop, rmse_min), reasons)

\* evaluate without the "no current model" branch of lines 52-53
evaluate_no_first_deployment(current, candidate, thresholds) ==
    IF DOMAIN candidate = {}
    THEN Verdict(FALSE, <<Reason("candidate metrics unavailable", Fin(0))>>)
    ELSE LET r2_gain == XSub(MetricGet(candidate, "r2", Fin(0)),
                             MetricGet(current, "r2", Fin(0)))
             rmse_delta == XSub(MetricGet(candidate, "rmse", PosInf),
                                MetricGet(current, "rmse", PosInf))
             rmse_drop == XNeg(rmse_delta)
             r2_min == ToFloat(DictGet(thresholds, "r2_min_gain",
                                       YNum(Fin(DefaultR2MinGain))))
             rmse_min == ToFloat(DictGet(thresholds, "rmse_min_drop",
                                         YNum(Fin(DefaultRmseMinDrop))))
             reasons == <<Reason("r2", r2_gain), Reason("rmse", rmse_delta)>>
         IN  IF r2_min = Unparsable THEN Raised
             ELSE IF ~XGe(r2_gain, r2_min) THEN Verdict(FALSE, reasons)
             ELSE IF rmse_min = Unparsable THEN Raised
             ELSE Verdict(XGe(rmse_drop, rmse_min), reasons)

\* evaluate that takes the candidate's r2 itself for the r2 gain
evaluate_r2_from_zero(current, candidate, thresholds) ==
    IF DOMAIN candidate = {}
    THEN Verdict(FALSE, <<Reason("candidate metrics unavailable", Fin(0))>>)
    ELSE IF DOMAIN current = {}
    THEN Verdict(TRUE, <<Reason("no current model", Fin(0))>>)
    ELSE LET r2_gain == MetricGet(candidate, "r2", Fin(0))
             rmse_delta == XSub(MetricGet(candidate, "rmse", PosInf),
                                MetricGet(current, "rmse", PosInf))
             rmse_drop == XNeg(rmse_delta)
             r2_min == ToFloat(DictGet(thresholds, "r2_min_gain",
                                       YNum(Fin(DefaultR2MinGain))))
             rmse_min == ToFloat(DictGet(thresholds, "rmse_min_drop",
                                         YNum(Fin(DefaultRmseMinDrop))))
             reasons == <<Reason("r2", r2_gain), Reason("rmse", rmse_delta)>>
         IN  IF r2_min = Unparsable THEN Raised
             ELSE IF ~XGe(r2_gain, r2_min) THEN Verdict(FALSE, reasons)
             ELSE IF rmse_min = Unparsable THEN Raised
             ELSE Verdict(XGe(rmse_drop, rmse_min), reasons)

\* evaluate: the verdict and its reasons.  "and" evaluates its right operand,
\* and so float() of the second threshold, only when the first condition holds
evaluate(current, candidate, thresholds) ==
    IF DOMAIN candidate = {}
    THEN Verdict(FALSE, <<Reason("candidate metrics unavailable", Fin(0))>>)
    ELSE IF DOMAIN current = {}
    THEN Verdict(TRUE, <<Reason("no current model", Fin(0))>>)
    ELSE LET r2_gain == XSub(MetricGet(candidate, "r2", Fin(0)),
                             MetricGet(current, "r2", Fin(0)))
             rmse_delta == XSub(MetricGet(candidate, "rmse", PosInf),
                                MetricGet(current, "rmse", PosInf))
             rmse_drop == XNeg(rmse_delta)
             r2_min == ToFloat(DictGet(thresholds, "r2_min_gain",
                                       YNum(Fin(DefaultR2MinGain))))
             rmse_min == ToFloat(DictGet(thresholds, "rmse_min_drop",
                                         YNum(Fin(DefaultRmseMinDrop))))
             reasons == <<Reason("r2", r2_gain), Reason("rmse", rmse_delta)>>
         IN  IF r2_min = Unparsable THEN Raised
             ELSE IF ~XGe(r2_gain, r2_min) THEN Verdict(FALSE, reasons)
             ELSE IF rmse_min = Unparsable THEN Raised
             ELSE Verdict(XGe(rmse_drop, rmse_min), reasons)

\* An artifact URI: scheme ("" for a local path), bucket, the directory
\* segments of the path and the file name.
Uri(scheme, bucket, dir, fname) ==
    [scheme |-> scheme, bucket |-> bucket, dir |-> dir, fname |-> fname]

ModelUris ==
    { Uri("s3", "models", <<"runs", "42">>, "model.onnx"),
      Uri("s3", "models", <<"runs", "43">>, "model.pkl"),
      Uri("s3", "models", <<>>, "model.pkl"),
      Uri("", "", <<"tmp">>, "model.ONNX") }

OldUri == Uri("s3", "models", <<"runs", "41">>, "model.pkl")
OldMetaUri == Uri("s3", "models", <<"runs", "41">>, "model-metadata.json")
NoUri == Uri("", "", <<>>, "")

\* uri.lower().endswith(".onnx") on the file names in use
LowerEndsWithOnnx(uri) == uri.fname \in {"model.onnx", "model.ONNX"}

\* main, line 172: the serialization format named by the URI's suffix
model_format_of(uri) == IF LowerEndsWithOnnx(uri) THEN "onnx" ELSE "pkl"

\* main, lines 166-169: <directory>/model-metadata.json for an s3:// URI
metadata_uri_of(uri) ==
    IF uri.scheme = "s3"
    THEN Uri(uri.scheme, uri.bucket, uri.dir, "model-metadata.json")
    ELSE NoUri

\* One key of the configuration file: absent, present without a quoted value
\* (the substitution pattern does not match), or present with a quoted value.
Absent == [st |-> "absent", uri |-> NoUri, fmt |-> ""]
Unquoted == [st |-> "unquoted", uri |-> NoUri, fmt |-> ""]
QuotedUri(u) == [st |-> "quoted", uri |-> u, fmt |-> ""]
QuotedFmt(f) == [st |-> "quoted", uri |-> NoUri, fmt |-> f]

MkFile(path, format, meta) ==
    [exists |-> TRUE, MODEL_PATH |-> path, MODEL_FORMAT |-> format,
     MODEL_META_PATH |-> meta]

MissingFile ==
    [exists |-> FALSE, MODEL_PATH |-> Absent, MODEL_FORMAT |-> Absent,
     MODEL_META_PATH |-> Absent]

\* the file as a promotion of the artifact leaves it: every key holds the
\* value update_configmap writes for that URI
PromotedFile(u) ==
    MkFile(QuotedUri(u), QuotedFmt(model_format_of(u)),
           QuotedUri(metadata_uri_of(u)))

PromotedFiles ==
    { PromotedFile(u) : u \in { v \in ModelUris : v.scheme = "s3" /\ v.dir # <<>> } }

ConfigFiles ==
    { MkFile(p, f, m) :
        p \in {Absent, Unquoted, QuotedUri(OldUri)},
        f \in {Absent, QuotedFmt("pkl"), QuotedFmt("onnx")},
        m \in {Absent, QuotedUri(OldMetaUri)} }
    \cup PromotedFiles
    \cup { MissingFile }

\* re.sub on one key: only a quoted value is replaced
SubUri(entry, u) == IF entry.st = "quoted" THEN QuotedUri(u) ELSE entry
SubFmt(entry, f) == IF entry.st = "quoted" THEN QuotedFmt(f) ELSE entry

\* update_configmap, lines 75-81: the text after the three substitutions
patched(text, model_uri, model_format, metadata_uri) ==
    [text EXCEPT
       !.MODEL_PATH = SubUri(@, model_uri),
       !.MODEL_FORMAT = SubFmt(@, model_format),
       !.MODEL_META_PATH =
           IF metadata_uri # NoUri THEN SubUri(@, metadata_uri) ELSE @]

\* environment variables GIT_AUTHOR_NAME / GIT_AUTHOR_EMAIL
Envs ==
    { [GIT_AUTHOR_NAME |-> None, GIT_AUTHOR_EMAIL |-> None],
      [GIT_AUTHOR_NAME |-> "alice", GIT_AUTHOR_EMAIL |-> "alice@example.com"] }

Getenv(value, default) == IF value = None THEN default ELSE value

\* ---------------------------------------------- promotion: actions

PFinish(code, kind, msg) ==
    /\ ppc' = "done"
    /\ pexit' = code
    /\ perr' = kind
    /\ pout' = msg

NoVerdict == [raised |-> FALSE, improved |-> FALSE, reasons |-> <<>>]

NoInput ==
    [current |-> EmptyMap, candidate |-> EmptyMap, model_uri |-> NoUri,
     policy |-> DEFAULT_POLICY, env |-> [GIT_AUTHOR_NAME |-> None,
                                         GIT_AUTHOR_EMAIL |-> None],
     file0 |-> MissingFile, name0 |-> None, email0 |-> None]

PromoInit ==
    /\ ppc = "init"
    /\ pin = NoInput
    /\ verdict = NoVerdict
    /\ file = MissingFile
    /\ index = MissingFile
    /\ commits = <<>>
    /\ user_name = None
    /\ user_email = None
    /\ store = <<>>
    /\ plog = <<>>
    /\ pout = ""
    /\ pnotes = <<>>
    /\ pexit = 0
    /\ perr = "none"

\* main that goes on to patch the overlay whatever the verdict is
promote_main_ignores_verdict ==
    /\ ppc = "init"
    /\ \E cur \in Currents, cand \in Candidates, uri \in ModelUris,
          doc \in PolicyDocs, env \in Envs, f \in ConfigFiles,
          n \in {None, "dev"}, e \in {None, "dev@example.com"} :
         LET policy == load_policy(doc)
             v == evaluate(cur, cand, policy.thresholds)
         IN  /\ pin' = [current |-> cur, candidate |-> cand,
                        model_uri |-> uri, policy |-> policy, env |-> env,
                        file0 |-> f, name0 |-> n, email0 |-> e]
             /\ file' = f
             /\ user_name' = n
             /\ user_email' = e
             /\ verdict' = v
             /\ IF v.raised
                THEN PFinish(1, "crash", "")
                ELSE ppc' = "update" /\ UNCHANGED <<pexit, perr, pout>>
    /\ UNCHANGED <<index, commits, store, plog>>
    /\ UNCHANGED pnotes
    /\ UNCHANGED beyond_promo

\* main, lines 149-162: load policy and metrics, evaluate (an exception of
\* evaluate ends the run with a traceback), stop if not improved
promote_main ==
    /\ ppc = "init"
    /\ \E cur \in Currents, cand \in Candidates, uri \in ModelUris,
          doc \in PolicyDocs, env \in Envs, f \in ConfigFiles,
          n \in {None, "dev"}, e \in {None, "dev@example.com"} :
         LET policy == load_policy(doc)
             v == evaluate(cur, cand, policy.thresholds)
         IN  /\ pin' = [current |-> cur, candidate |-> cand,
                        model_uri |-> uri, policy |-> policy, env |-> env,
                        file0 |-> f, name0 |-> n, email0 |-> e]
             /\ file' = f
             /\ user_name' = n
             /\ user_email' = e
             /\ verdict' = v
             /\ IF v.raised
                THEN PFinish(1, "crash", "")
                ELSE IF ~v.improved
                THEN PFinish(0, "none", "NOT IMPROVED: no promotion")
                ELSE ppc' = "update" /\ UNCHANGED <<pexit, perr, pout>>
    /\ UNCHANGED <<index, commits, store, plog>>
    /\ UNCHANGED pnotes
    /\ UNCHANGED beyond_promo

\* update_configmap without the "nothing changed" check of lines 83-84
update_configmap_nocheck ==
    /\ ppc = "update"
    /\ IF ~file.exists
       THEN PFinish(1, "io", "") /\ UNCHANGED <<file, plog>>
       ELSE /\ file' = patched(file, pin.model_uri,
                               model_format_of(pin.model_uri),
                               metadata_uri_of(pin.model_uri))
            /\ plog' = Append(plog, "write")
            /\ ppc' = "git_add"
            /\ UNCHANGED <<pexit, perr, pout>>
    /\ UNCHANGED <<pin, verdict, index, commits, user_name, user_email, store>>
    /\ UNCHANGED pnotes
    /\ UNCHANGED beyond_promo

\* update_configmap that writes the file and returns without staging it
update_configmap_unstaged ==
    /\ ppc = "update"
    /\ IF ~file.exists
       THEN PFinish(1, "io", "") /\ UNCHANGED <<file, plog>>
       ELSE LET updated == patched(file, pin.model_uri,
                                   model_format_of(pin.model_uri),
                                   metadata_uri_of(pin.model_uri))
            IN  IF updated = file
                THEN PFinish(1, "config", "") /\ UNCHANGED <<file, plog>>
                ELSE /\ file' = updated
                     /\ plog' = Append(plog, "write")
                     /\ ppc' = "identity"
                     /\ UNCHANGED <<pexit, perr, pout>>
    /\ UNCHANGED <<pin, verdict, index, commits, user_name, user_email, store>>
    /\ UNCHANGED pnotes
    /\ UNCHANGED beyond_promo

\* update_configmap, lines 74-86: read, substitute, refuse an unchanged text,
\* write the file
update_configmap ==
    /\ ppc = "update"
    /\ IF ~file.exists
       THEN PFinish(1, "io", "") /\ UNCHANGED <<file, plog>>
       ELSE LET updated == patched(file, pin.model_uri,
                                   model_format_of(pin.model_uri),
                                   metadata_uri_of(pin.model_uri))
            IN  IF updated = file
                THEN PFinish(1, "config", "") /\ UNCHANGED <<file, plog>>
                ELSE /\ file' = updated
                     /\ plog' = Append(plog, "write")
                     /\ ppc' = "git_add"
                     /\ UNCHANGED <<pexit, perr, pout>>
    /\ UNCHANGED <<pin, verdict, index, commits, user_name, user_email, store>>
    /\ UNCHANGED pnotes
    /\ UNCHANGED beyond_promo

\* update_configmap, line 87: git add <path>
git_add ==
    /\ ppc = "git_add"
    /\ \E ok \in BOOLEAN :
         IF ok
         THEN /\ index' = file
              /\ plog' = Append(plog, "stage")
              /\ ppc' = "identity"
              /\ UNCHANGED <<pexit, perr, pout>>
         ELSE PFinish(1, "git", "") /\ UNCHANGED <<index, plog>>
    /\ UNCHANGED <<pin, verdict, file, commits, user_name, user_email, store>>
    /\ UNCHANGED pnotes
    /\ UNCHANGED beyond_promo

\* ensure_git_identity: query name and email; if either query fails set both
ensure_git_identity ==
    /\ ppc = "identity"
    /\ IF user_name # None /\ user_email # None
       THEN /\ plog' = Append(plog, "identity")
            /\ ppc' = "commit"
            /\ UNCHANGED <<user_name, user_email, pexit, perr, pout>>
       ELSE \E ok \in BOOLEAN :
              IF ok
              THEN /\ user_name' = Getenv(pin.env.GIT_AUTHOR_NAME, "ci-bot")
                   /\ user_email' = Getenv(pin.env.GIT_AUTHOR_EMAIL,
                                           "ci-bot@example.com")
                   /\ plog' = Append(plog, "identity")
                   /\ ppc' = "commit"
                   /\ UNCHANGED <<pexit, perr, pout>>
              ELSE /\ PFinish(1, "git", "")
                   /\ UNCHANGED <<user_name, user_email, plog>>
    /\ UNCHANGED <<pin, verdict, file, index, commits, store>>
    /\ UNCHANGED pnotes
    /\ UNCHANGED beyond_promo

\* git_commit that puts the file back as it was when the commit fails
git_commit_rollback ==
    /\ ppc = "commit"
    /\ \E ok \in BOOLEAN :
         IF ok
         THEN /\ commits' = Append(commits, [message |-> pin.model_uri,
                                             content |-> index])
              /\ plog' = Append(plog, "commit")
              /\ ppc' = "record"
              /\ UNCHANGED <<pexit, perr, pout, file>>
         ELSE /\ PFinish(1, "git", "")
              /\ file' = pin.file0
              /\ UNCHANGED <<commits, plog>>
    /\ UNCHANGED <<pin, verdict, index, user_name, user_email, store>>
    /\ UNCHANGED pnotes
    /\ UNCHANGED beyond_promo

\* main, lines 176-177: git commit -m "chore: promote model -> <uri>"
git_commit ==
    /\ ppc = "commit"
    /\ \E ok \in BOOLEAN :
         IF ok
         THEN /\ commits' = Append(commits, [message |-> pin.model_uri,
                                             content |-> index])
              /\ plog' = Append(plog, "commit")
              /\ ppc' = "record"
              /\ UNCHANGED <<pexit, perr, pout>>
         ELSE PFinish(1, "git", "") /\ UNCHANGED <<commits, plog>>
    /\ UNCHANGED <<pin, verdict, file, index, user_name, user_email, store>>
    /\ UNCHANGED pnotes
    /\ UNCHANGED beyond_promo

\* record_promotion, lines 110-112: the key of the provenance object
promotion_key(uri) ==
    IF uri.dir = <<>>
    THEN <<uri.fname, "promotion.json">>
    ELSE uri.dir \o <<"promotion.json">>

FinalMessage ==
    IF pin.policy.actions["auto_promote"]
    THEN "IMPROVED: promotion committed"
    ELSE "IMPROVED: promotion committed (awaiting manual approval)"

\* the provenance object record_promotion puts into the store
ProvenanceRecord ==
    [bucket |-> pin.model_uri.bucket,
     key |-> promotion_key(pin.model_uri),
     overlay |-> pin.policy.actions["target_overlay"],
     by |-> Getenv(pin.env.GIT_AUTHOR_NAME, "ci-bot"),
     reason |-> verdict.reasons,
     model_uri |-> pin.model_uri]

\* what the upload attempt of record_promotion can end in: boto3 cannot be
\* imported (lines 122-127); the session or client constructor of lines
\* 129-134 raises, outside every try; put_object succeeds (lines 137-143);
\* put_object raises BotoCoreError or ClientError (lines 144-145)
UploadOutcomes == {"no-boto3", "client-error", "stored", "upload-failed"}

\* main, lines 179-184 with record_promotion: provenance upload, then the
\* final message
record_promotion ==
    /\ ppc = "record"
    /\ IF pin.model_uri.scheme # "s3"
       THEN /\ pnotes' = Append(pnotes, "skipping: non-S3 URI")
            /\ PFinish(0, "none", FinalMessage)
            /\ UNCHANGED <<store, plog>>
       ELSE \E outcome \in UploadOutcomes :
              IF outcome = "no-boto3"
              THEN /\ pnotes' = Append(pnotes, "skipping: boto3 unavailable")
                   /\ PFinish(0, "none", FinalMessage)
                   /\ UNCHANGED <<store, plog>>
              ELSE IF outcome = "client-error"
              THEN /\ PFinish(1, "provenance", "")
                   /\ UNCHANGED <<store, plog, pnotes>>
              ELSE IF outcome = "stored"
              THEN /\ store' = Append(store, ProvenanceRecord)
                   /\ plog' = Append(plog, "provenance")
                   /\ pnotes' = Append(pnotes, "stored")
                   /\ PFinish(0, "none", FinalMessage)
              ELSE /\ pnotes' = Append(pnotes, "failed to upload")
                   /\ PFinish(0, "none", FinalMessage)
                   /\ UNCHANGED <<store, plog>>
    /\ UNCHANGED <<pin, verdict, file, index, commits, user_name, user_email>>
    /\ UNCHANGED beyond_promo

\* ------------------------------------------------- the two evaluators

\* evaluate.py, line 19
DEFAULT_THRESHOLDS ==
    ("r2_min_gain" :> YNum(Fin(DefaultR2MinGain)))
    @@ ("rmse_min_drop" :> YNum(Fin(DefaultRmseMinDrop)))

\* a metrics file: load_metrics (auto_promote.py) and load_json (evaluate.py)
\* return {} for a path that does not exist, else the parsed JSON object
NoMetricsFile == [exists |-> FALSE, data |-> EmptyMap]

load_metrics(f) == IF f.exists THEN f.data ELSE EmptyMap

load_json(f) == IF f.exists THEN f.data ELSE EmptyMap

\* load_thresholds: the defaults, overridden by float(v) for the document
\* values v that are int or float
load_thresholds(doc) ==
    IF doc.exists
    THEN LET numeric == { k \in DOMAIN doc.thresholds :
                            IsIntOrFloat(doc.thresholds[k]) }
         IN  [k \in numeric |-> YNum(ToFloat(doc.thresholds[k]))]
             @@ DEFAULT_THRESHOLDS
    ELSE DEFAULT_THRESHOLDS

\* compute_deltas: r2_gain, rmse_delta, rmse_drop
compute_deltas(current, candidate) ==
    LET candidate_r2 == MetricGet(candidate, "r2", Fin(0))
        current_r2 == MetricGet(current, "r2", Fin(0))
        candidate_rmse == MetricGet(candidate, "rmse", PosInf)
        current_rmse == MetricGet(current, "rmse", PosInf)
    IN  [r2_gain |-> XSub(candidate_r2, current_r2),
         rmse_delta |-> XSub(candidate_rmse, current_rmse),
         rmse_drop |-> XSub(current_rmse, candidate_rmse)]

\* evaluate of evaluate.py, given the thresholds load_thresholds returned
pipeline_evaluate(current, candidate, thresholds) ==
    IF DOMAIN candidate = {}
    THEN Verdict(FALSE, <<Reason("candidate metrics unavailable", Fin(0))>>)
    ELSE IF DOMAIN current = {}
    THEN Verdict(TRUE, <<Reason("no current model", Fin(0))>>)
    ELSE LET d == compute_deltas(current, candidate)
             improved ==
                 /\ XGe(d.r2_gain, thresholds["r2_min_gain"].x)
                 /\ XGe(d.rmse_drop, thresholds["rmse_min_drop"].x)
         IN  Verdict(improved, <<Reason("r2", d.r2_gain),
                                 Reason("rmse", d.rmse_delta)>>)

\* the metrics snapshots compared: r2 in hundredths, rmse in units, with
\* snapshots that lack one of the two fields
EvalSnapshots ==
    { EmptyMap, ("r2" :> 80), ("rmse" :> 600) }
    \cup { Snapshot(r2, rmse) : r2 \in {80, 81}, rmse \in {500, 600} }

MetricsFiles ==
    { NoMetricsFile } \cup { [exists |-> TRUE, data |-> m] : m \in EvalSnapshots }

\* what the policy document can hold for a threshold: numbers around the
\* deltas the snapshots produce, the floats YAML writes -.inf and .nan, and
\* texts
ThresholdValues(unit) ==
    { YNum(Fin(0 - unit)), YNum(Fin(0)), YNum(Fin(unit)), YNum(NegInf),
      YNum(NaN), YStr(Fin(0)), YStr(Unparsable) }

ThresholdSections ==
    { EmptyMap }
    \cup { "r2_min_gain" :> a : a \in ThresholdValues(DefaultR2MinGain) }
    \cup { "rmse_min_drop" :> b : b \in ThresholdValues(DefaultRmseMinDrop) }
    \cup { ("r2_min_gain" :> a) @@ ("rmse_min_drop" :> b) :
             a \in ThresholdValues(DefaultR2MinGain),
             b \in ThresholdValues(DefaultRmseMinDrop) }

EvalPolicyDocs ==
    { NoPolicyDoc }
    \cup { [exists |-> TRUE, thresholds |-> t, actions |-> EmptyMap] :
             t \in ThresholdSections }

NotEvaluated == [done |-> FALSE, thresholds |-> EmptyMap, verdict |-> NoVerdict]

EvalInputs ==
    [current : MetricsFiles, candidate : MetricsFiles, policy : EvalPolicyDocs]

\* no comparison is under way
EvalIdle ==
    /\ ein = [current |-> NoMetricsFile, candidate |-> NoMetricsFile,
              policy |-> NoPolicyDoc]
    /\ promo_eval = NotEvaluated
    /\ pipeline_eval = NotEvaluated

\* the files on disk when the two programs are started on them
EvalInputsInit ==
    /\ ein \in EvalInputs
    /\ promo_eval = NotEvaluated
    /\ pipeline_eval = NotEvaluated

\* auto_promote.py main, lines 153-158: load_policy, load_metrics twice,
\* evaluate
auto_promote_evaluate ==
    /\ ~promo_eval.done
    /\ LET policy == load_policy(ein.policy)
           current == load_metrics(ein.current)
           candidate == load_metrics(ein.candidate)
       IN  promo_eval' = [done |-> TRUE, thresholds |-> policy.thresholds,
                          verdict |-> evaluate(current, candidate,
                                               policy.thresholds)]
    /\ UNCHANGED <<ein, pipeline_eval>>
    /\ UNCHANGED beyond_eval

\* evaluate.py main, lines 105-108: load_json twice, then evaluate, which
\* starts with load_thresholds
evaluate_main ==
    /\ ~pipeline_eval.done
    /\ LET current == load_json(ein.current)
           candidate == load_json(ein.candidate)
           thresholds == load_thresholds(ein.policy)
       IN  pipeline_eval' = [done |-> TRUE, thresholds |-> thresholds,
                             verdict |-> pipeline_evaluate(current, candidate,
                                                           thresholds)]
    /\ UNCHANGED <<ein, promo_eval>>
    /\ UNCHANGED beyond_eval

\* ------------------------------------------------- rendering a directory

\* the file names a directory can hold, in the order in which Python sorts
\* their paths (code point order: upper case before lower case)
FileNames == <<"B.yaml", "a.yaml", "b.yml", "c.yaml", "notes.txt">>

NameRank(n) == CHOOSE i \in DOMAIN FileNames : FileNames[i] = n

\* the names the pattern "*.y*ml" matches
GlobMatches == {"B.yaml", "a.yaml", "b.yml", "c.yaml"}

\* a directory listing: some of the names, each once, in any order
Listings ==
    { l \in SeqsUpTo({ FileNames[i] : i \in DOMAIN FileNames }, Len(FileNames)) :
        \A i, j \in DOMAIN l : i # j => l[i] # l[j] }

\* path.glob("*.y*ml"): the matching entries in listing order
IsManifestName(n) == n \in GlobMatches
glob(listing) == SelectSeq(listing, IsManifestName)

\* sorted(...) on paths of one directory
RECURSIVE sorted(_)
sorted(names) ==
    IF names = <<>> THEN <<>>
    ELSE LET first == CHOOSE n \in { names[i] : i \in DOMAIN names } :
                        \A i \in DOMAIN names : NameRank(n) <= NameRank(names[i])
             IsRest(n) == n # first
         IN  <<first>> \o sorted(SelectSeq(names, IsRest))

\* read_file of an existing file: its text, here named after the file
read_file(n) == n

\* the string "\n---\n"
DocumentSeparator == "---"

\* "\n---\n".join(manifests)
RECURSIVE join(_)
join(texts) ==
    IF Len(texts) <= 1 THEN texts
    ELSE <<Head(texts), DocumentSeparator>> \o join(Tail(texts))

\* render_manifests on a directory that joins the files in listing order
render_directory_unsorted(listing) ==
    LET paths == glob(listing)
        manifests == [i \in DOMAIN paths |-> read_file(paths[i])]
    IN  IF manifests = <<>>
        THEN [ok |-> FALSE, code |-> 1, text |-> <<>>]
        ELSE [ok |-> TRUE, code |-> 0, text |-> join(manifests)]

\* render_manifests, lines 76-82: path is a directory, no kustomize
render_directory(listing) ==
    LET paths == sorted(glob(listing))
        manifests == [i \in DOMAIN paths |-> read_file(paths[i])]
    IN  IF manifests = <<>>
        THEN [ok |-> FALSE, code |-> 1, text |-> <<>>]
        ELSE [ok |-> TRUE, code |-> 0, text |-> join(manifests)]

NotRendered == [done |-> FALSE, ok |-> FALSE, code |-> 0, text |-> <<>>]

RenderIdle ==
    /\ dir_listing = <<>>
    /\ dir_rendered = NotRendered

RenderInputsInit ==
    /\ dir_listing \in Listings
    /\ dir_rendered = NotRendered

\* cmd_render on a directory: render_manifests(path, False)
render_dir ==
    /\ ~dir_rendered.done
    /\ LET r == render_directory(dir_listing)
       IN  dir_rendered' = [done |-> TRUE, ok |-> r.ok, code |-> r.code,
                            text |-> r.text]
    /\ UNCHANGED dir_listing
    /\ UNCHANGED beyond_render

\* ------------------------------------------------- soectl: overlay summary

\* the executables the lookup asks for, and where one is found if it is
ToolNames == {"kustomize", "kubectl", "oc"}
ToolPath(n) == <<"/usr/bin", n>>
NoTool == <<>>

\* which executables are installed: name -> path, or NoTool
Installations == [ToolNames -> BOOLEAN]

\* the capability lookup: the path of the first candidate that is installed
RECURSIVE which(_, _)
which(installed, candidates) ==
    IF candidates = <<>> THEN NoTool
    ELSE IF installed[Head(candidates)] THEN ToolPath(Head(candidates))
    ELSE which(installed, Tail(candidates))

\* the resources an overlay renders to: kind, name and namespace
OverlayDocs ==
    { [kind |-> "ConfigMap", name |-> "demo", ns |-> "ns-demo"],
      [kind |-> "Deployment", name |-> "web", ns |-> "ns-demo"],
      [kind |-> "Service", name |-> "web", ns |-> "ns-other"] }

OverlayManifests == SeqsUpTo(OverlayDocs, MaxDocs)

TheOverlay == "/fake/overlay"

\* the "Kind/name" entry of a resource
Entry(d) == <<d.kind, d.name>>

\* the entries of the resources of namespace ns, in manifest order
RECURSIVE entries_of(_, _)
entries_of(docs, ns) ==
    IF docs = <<>> THEN <<>>
    ELSE (IF Head(docs).ns = ns THEN <<Entry(Head(docs))>> ELSE <<>>)
         \o entries_of(Tail(docs), ns)

\* the summary of a rendered manifest: namespace -> entries
group_by_namespace(docs) ==
    [ns \in { docs[i].ns : i \in DOMAIN docs } |-> entries_of(docs, ns)]

NoSummary == [ns \in {} |-> <<>>]

\* the command that renders the overlay: kustomize itself if installed, else
\* the kustomize subcommand of the first cluster tool found, else none
render_command(installed, candidates) ==
    LET kustomize == which(installed, <<"kustomize">>)
        cluster_tool == which(installed, candidates)
    IN  IF kustomize # NoTool THEN <<<<kustomize, "build", TheOverlay>>>>
        ELSE IF cluster_tool # NoTool
        THEN <<<<cluster_tool, "kustomize", TheOverlay>>>>
        ELSE <<>>

\* summarizing with the cluster tools looked up in the order oc, kubectl
summarize_rendered_resources_oc_first(installed, docs) ==
    LET commands == render_command(installed, <<"oc", "kubectl">>)
    IN  [commands |-> commands,
         summary |-> IF commands = <<>> THEN NoSummary
                     ELSE group_by_namespace(docs)]

\* _summarize_rendered_resources(overlay): render the overlay with the
\* renderer found, group the resources by namespace
summarize_rendered_resources(installed, docs) ==
    LET commands == render_command(installed, <<"kubectl", "oc">>)
    IN  [commands |-> commands,
         summary |-> IF commands = <<>> THEN NoSummary
                     ELSE group_by_namespace(docs)]

NotSummarized == [done |-> FALSE, commands |-> <<>>, summary |-> NoSummary]

SoectlIdle ==
    /\ soe_in = [installed |-> [n \in ToolNames |-> FALSE], docs |-> <<>>]
    /\ soe_out = NotSummarized

SoectlInputsInit ==
    /\ soe_in \in [installed : Installations, docs : OverlayManifests]
    /\ soe_out = NotSummarized

\* one call of _summarize_rendered_resources
summarize ==
    /\ ~soe_out.done
    /\ LET r == summarize_rendered_resources(soe_in.installed, soe_in.docs)
       IN  soe_out' = [done |-> TRUE, commands |-> r.commands,
                       summary |-> r.summary]
    /\ UNCHANGED soe_in
    /\ UNCHANGED beyond_soectl

\* ------------------------------------------------- two promotion runs

\* the two auto_promote.py processes started on the same overlay
Runs == {1, 2}

\* an overlay file that names a model: MODEL_PATH is there with a quoted value
OverlayFiles ==
    { MkFile(QuotedUri(OldUri), f, m) :
        f \in {Absent, QuotedFmt("pkl"), QuotedFmt("onnx")},
        m \in {Absent, QuotedUri(OldMetaUri)} }

NoRun == [pc |-> "done", uri |-> NoUri, text |-> MissingFile]

RunsIdle ==
    /\ wt_file = MissingFile
    /\ staged = MissingFile
    /\ head = MissingFile
    /\ history = <<>>
    /\ runs = [r \in Runs |-> NoRun]
    /\ serialized = TRUE

\* a clean working tree, and two runs with an improved verdict each about to
\* call update_configmap
RunsInputsInit ==
    /\ wt_file \in OverlayFiles
    /\ staged = wt_file
    /\ head = wt_file
    /\ history = <<>>
    /\ runs \in [Runs -> [pc : {"read"}, uri : ModelUris, text : {MissingFile}]]
    /\ serialized \in BOOLEAN

\* the caller's serialization: the second run starts after the first ended
MayStep(r) == ~serialized \/ r = 1 \/ runs[1].pc \in {"done", "failed"}

\* update_configmap, line 74: path.read_text
run_read_text(r) ==
    /\ runs[r].pc = "read" /\ MayStep(r)
    /\ runs' = [runs EXCEPT ![r].text = wt_file, ![r].pc = "write"]
    /\ UNCHANGED <<wt_file, staged, head, history, serialized>>
    /\ UNCHANGED beyond_runs

\* update_configmap whose MODEL_PATH substitution is lost
run_write_text_keeps_path(r) ==
    /\ runs[r].pc = "write" /\ MayStep(r)
    /\ LET text == runs[r].text
           updated == [patched(text, runs[r].uri, model_format_of(runs[r].uri),
                               metadata_uri_of(runs[r].uri))
                         EXCEPT !.MODEL_PATH = text.MODEL_PATH]
       IN  IF updated = text
           THEN runs' = [runs EXCEPT ![r].pc = "failed"] /\ UNCHANGED wt_file
           ELSE /\ wt_file' = updated
                /\ runs' = [runs EXCEPT ![r].pc = "add"]
    /\ UNCHANGED <<staged, head, history, serialized>>
    /\ UNCHANGED beyond_runs

\* update_configmap, lines 75-86: substitute in the text read, refuse an
\* unchanged text, write the file
run_write_text(r) ==
    /\ runs[r].pc = "write" /\ MayStep(r)
    /\ LET text == runs[r].text
           updated == patched(text, runs[r].uri, model_format_of(runs[r].uri),
                              metadata_uri_of(runs[r].uri))
       IN  IF updated = text
           THEN runs' = [runs EXCEPT ![r].pc = "failed"] /\ UNCHANGED wt_file
           ELSE /\ wt_file' = updated
                /\ runs' = [runs EXCEPT ![r].pc = "add"]
    /\ UNCHANGED <<staged, head, history, serialized>>
    /\ UNCHANGED beyond_runs

\* update_configmap, line 87: git add stages the file as it is now
run_git_add(r) ==
    /\ runs[r].pc = "add" /\ MayStep(r)
    /\ staged' = wt_file
    /\ runs' = [runs EXCEPT ![r].pc = "commit"]
    /\ UNCHANGED <<wt_file, head, history, serialized>>
    /\ UNCHANGED beyond_runs

\* main, lines 176-177: git commit records the index under the run's
\* message; with nothing staged git commit fails and check_call raises
run_git_commit(r) ==
    /\ runs[r].pc = "commit" /\ MayStep(r)
    /\ IF staged = head
       THEN /\ runs' = [runs EXCEPT ![r].pc = "failed"]
            /\ UNCHANGED <<head, history>>
       ELSE /\ history' = Append(history, [message |-> runs[r].uri,
                                           content |-> staged, by |-> r])
            /\ head' = staged
            /\ runs' = [runs EXCEPT ![r].pc = "done"]
    /\ UNCHANGED <<wt_file, staged, serialized>>
    /\ UNCHANGED beyond_runs

\* ------------------------------------------------- the auto_promote flag

\* what one run of main leaves behind
RunResult(f, n, e) ==
    [file |-> f, index |-> MissingFile, commits |-> <<>>, store |-> <<>>,
     plog |-> <<>>, pnotes |-> <<>>, pout |-> "", pexit |-> 0,
     perr |-> "none", user_name |-> n, user_email |-> e]

\* raise: the run ends with a non-zero exit code
Failed(r, kind) == [r EXCEPT !.pexit = 1, !.perr = kind]

\* main, lines 181-184
final_message(policy) ==
    IF policy.actions["auto_promote"]
    THEN "IMPROVED: promotion committed"
    ELSE "IMPROVED: promotion committed (awaiting manual approval)"

\* main_tail that leaves the commit to the approver when auto_promote is off
main_tail_manual_commit(r, inp, policy, v, o) ==
    IF ~o.commit_ok
    THEN Failed(r, "git")
    ELSE LET c == IF policy.actions["auto_promote"]
                  THEN [r EXCEPT !.commits = <<[message |-> inp.model_uri,
                                               content |-> r.index]>>,
                                 !.plog = Append(@, "commit")]
                  ELSE r
             said == [c EXCEPT !.pout = final_message(policy)]
         IN  IF inp.model_uri.scheme # "s3"
             THEN [said EXCEPT !.pnotes = <<"skipping: non-S3 URI">>]
             ELSE IF o.upload = "no-boto3"
             THEN [said EXCEPT !.pnotes = <<"skipping: boto3 unavailable">>]
             ELSE IF o.upload = "client-error"
             THEN Failed(c, "provenance")
             ELSE IF o.upload = "stored"
             THEN [said EXCEPT
                     !.store = <<[bucket |-> inp.model_uri.bucket,
                                  key |-> promotion_key(inp.model_uri),
                                  overlay |-> policy.actions["target_overlay"],
                                  by |-> Getenv(inp.env.GIT_AUTHOR_NAME, "ci-bot"),
                                  reason |-> v.reasons,
                                  model_uri |-> inp.model_uri]>>,
                     !.plog = Append(@, "provenance"),
                     !.pnotes = <<"stored">>]
             ELSE [said EXCEPT !.pnotes = <<"failed to upload">>]

\* main, lines 176-184 with record_promotion: git commit, the provenance
\* upload, the final message
main_tail(r, inp, policy, v, o) ==
    IF ~o.commit_ok
    THEN Failed(r, "git")
    ELSE LET c == [r EXCEPT !.commits = <<[message |-> inp.model_uri,
                                           content |-> r.index]>>,
                            !.plog = Append(@, "commit")]
             said == [c EXCEPT !.pout = final_message(policy)]
         IN  IF inp.model_uri.scheme # "s3"
             THEN [said EXCEPT !.pnotes = <<"skipping: non-S3 URI">>]
             ELSE IF o.upload = "no-boto3"
             THEN [said EXCEPT !.pnotes = <<"skipping: boto3 unavailable">>]
             ELSE IF o.upload = "client-error"
             THEN Failed(c, "provenance")
             ELSE IF o.upload = "stored"
             THEN [said EXCEPT
                     !.store = <<[bucket |-> inp.model_uri.bucket,
                                  key |-> promotion_key(inp.model_uri),
                                  overlay |-> policy.actions["target_overlay"],
                                  by |-> Getenv(inp.env.GIT_AUTHOR_NAME, "ci-bot"),
                                  reason |-> v.reasons,
                                  model_uri |-> inp.model_uri]>>,
                     !.plog = Append(@, "provenance"),
                     !.pnotes = <<"stored">>]
             ELSE [said EXCEPT !.pnotes = <<"failed to upload">>]

\* main, lines 148-175, as a function of its inputs and of the outcomes o of
\* the external commands: evaluate, update_configmap, ensure_git_identity
main_run(inp, policy, o) ==
    LET r0 == RunResult(inp.file0, inp.name0, inp.email0)
        v == evaluate(inp.current, inp.candidate, policy.thresholds)
        updated == patched(inp.file0, inp.model_uri,
                           model_format_of(inp.model_uri),
                           metadata_uri_of(inp.model_uri))
        r1 == [r0 EXCEPT !.file = updated, !.plog = <<"write">>]
        r2 == [r1 EXCEPT !.index = updated, !.plog = Append(@, "stage")]
        r3 == IF inp.name0 # None /\ inp.email0 # None
              THEN [r2 EXCEPT !.plog = Append(@, "identity")]
              ELSE [r2 EXCEPT
                      !.user_name = Getenv(inp.env.GIT_AUTHOR_NAME, "ci-bot"),
                      !.user_email = Getenv(inp.env.GIT_AUTHOR_EMAIL,
                                            "ci-bot@example.com"),
                      !.plog = Append(@, "identity")]
    IN  IF v.raised THEN Failed(r0, "crash")
        ELSE IF ~v.improved
        THEN [r0 EXCEPT !.pout = "NOT IMPROVED: no promotion"]
        ELSE IF ~inp.file0.exists THEN Failed(r0, "io")
        ELSE IF updated = inp.file0 THEN Failed(r0, "config")
        ELSE IF ~o.add_ok THEN Failed(r1, "git")
        ELSE IF (inp.name0 = None \/ inp.email0 = None) /\ ~o.identity_ok
        THEN Failed(r2, "git")
        ELSE main_tail(r3, inp, policy, v, o)

\* the outcomes of the external commands of one run
Outcomes ==
    [add_ok : BOOLEAN, identity_ok : BOOLEAN, commit_ok : BOOLEAN,
     upload : UploadOutcomes]

\* the policy document with the auto_promote flag written into its actions
WithFlag(doc, flag) ==
    [exists |-> TRUE, thresholds |-> doc.thresholds,
     actions |-> ("auto_promote" :> flag) @@ doc.actions]

FlagInputs ==
    [current : Currents, candidate : Candidates, model_uri : ModelUris,
     doc : PolicyDocs, env : Envs, file0 : ConfigFiles,
     name0 : {None, "dev"}, email0 : {None}]

NoFlagInput ==
    [current |-> EmptyMap, candidate |-> EmptyMap, model_uri |-> NoUri,
     doc |-> NoPolicyDoc, env |-> [GIT_AUTHOR_NAME |-> None,
                                   GIT_AUTHOR_EMAIL |-> None],
     file0 |-> MissingFile, name0 |-> None, email0 |-> None]

NoFlagRuns ==
    [done |-> FALSE, on |-> RunResult(MissingFile, None, None),
     off |-> RunResult(MissingFile, None, None)]

FlagIdle == flag_in = NoFlagInput /\ flag_out = NoFlagRuns

FlagInputsInit == flag_in \in FlagInputs /\ flag_out = NoFlagRuns

\* main run twice on the same inputs with the same external outcomes, once
\* under a policy with auto_promote: true and once with auto_promote: false
flag_pair ==
    /\ ~flag_out.done
    /\ \E o \in Outcomes :
         flag_out' =
           [done |-> TRUE,
            on |-> main_run(flag_in, load_policy(WithFlag(flag_in.doc, TRUE)), o),
            off |-> main_run(flag_in, load_policy(WithFlag(flag_in.doc, FALSE)), o)]
    /\ UNCHANGED flag_in
    /\ UNCHANGED beyond_flag

\* ------------------------------------------------- soectl sync

Overlays == {"dev", "prod"}

\* the command line of one gitops-lite step (sys.executable and the script
\* path left out), lines 141, 145-147, 151-161
GitopsCmd(verb, overlay, server_side, selector) ==
    <<verb, "--path", overlay, "--kustomize">>
    \o (IF server_side THEN <<"--server-side">> ELSE <<>>)
    \o (IF selector # None THEN <<"--selector", selector>> ELSE <<>>)

\* run: the command is executed; with check set, a non-zero exit code raises
\* typer.Exit(returncode)
run(st, cmd, check, rc) ==
    LET ran == [st EXCEPT !.cmds = Append(@, [argv |-> cmd, rc |-> rc])]
    IN  IF check /\ rc # 0
        THEN [ran EXCEPT !.pc = "done", !.exit = rc]
        ELSE ran

\* the next statement, unless the run was ended
Then(st, next) == IF st.pc = "done" THEN st ELSE [st EXCEPT !.pc = next]

Say(st, line) == [st EXCEPT !.out = Append(@, line)]

NoSync == [pc |-> "idle", cmds |-> <<>>, out |-> <<>>, exit |-> 0]

SyncIdle ==
    /\ sync_in = [overlay |-> "dev", prune |-> FALSE, server_side |-> TRUE]
    /\ sync_st = NoSync

SyncInputsInit ==
    /\ sync_in \in [overlay : Overlays, prune : BOOLEAN, server_side : BOOLEAN]
    /\ sync_st = [NoSync EXCEPT !.pc = "plan"]

\* sync, lines 138-143: the plan step
sync_plan ==
    /\ sync_st.pc = "plan"
    /\ \E rc \in ExitCodes :
         sync_st' = Then(run(Say(sync_st, "Plan"),
                             GitopsCmd("plan", sync_in.overlay, FALSE, None),
                             FALSE, rc),
                         "apply")
    /\ UNCHANGED sync_in
    /\ UNCHANGED beyond_sync

\* sync_apply that calls run with its default check=True
sync_apply_checked ==
    /\ sync_st.pc = "apply"
    /\ \E rc \in ExitCodes :
         sync_st' = Then(run(Say(sync_st, "Apply"),
                             GitopsCmd("apply", sync_in.overlay,
                                       sync_in.server_side, None),
                             TRUE, rc),
                         IF sync_in.prune THEN "prune" ELSE "ok")
    /\ UNCHANGED sync_in
    /\ UNCHANGED beyond_sync

\* sync, lines 144-148: the apply step
sync_apply ==
    /\ sync_st.pc = "apply"
    /\ \E rc \in ExitCodes :
         sync_st' = Then(run(Say(sync_st, "Apply"),
                             GitopsCmd("apply", sync_in.overlay,
                                       sync_in.server_side, None),
                             FALSE, rc),
                         IF sync_in.prune THEN "prune" ELSE "ok")
    /\ UNCHANGED sync_in
    /\ UNCHANGED beyond_sync

\* sync, lines 149-160: the prune step, only with --prune
sync_prune ==
    /\ sync_st.pc = "prune"
    /\ \E rc \in ExitCodes :
         sync_st' = Then(run(Say(sync_st, "Prune"),
                             GitopsCmd("prune", sync_in.overlay,
                                       sync_in.server_side,
                                       "gitops-lite=managed"),
                             FALSE, rc),
                         "ok")
    /\ UNCHANGED sync_in
    /\ UNCHANGED beyond_sync

\* sync, line 161: the last line, and the command returns
sync_ok ==
    /\ sync_st.pc = "ok"
    /\ sync_st' = [Say(sync_st, "Sync OK") EXCEPT !.pc = "done"]
    /\ UNCHANGED sync_in
    /\ UNCHANGED beyond_sync

Init ==
    /\ GitopsInit /\ PromoInit /\ EvalIdle /\ RenderIdle /\ SoectlIdle /\ RunsIdle
    /\ FlagIdle /\ SyncIdle

GitopsNext ==
    \/ main
    \/ cmd_render
    \/ cmd_plan
    \/ cmd_status
    \/ status_crash
    \/ status_skip
    \/ status_diff
    \/ status_get
    \/ status_summary
    \/ cmd_apply
    \/ cmd_prune
    \/ cmd_sync
    \/ cmd_sync_prune
    \/ cmd_validate

Next == GitopsNext

\* one invocation of gitops-lite
Spec == Init /\ [][Next]_vars

PromoStep ==
    \/ promote_main
    \/ update_configmap
    \/ git_add
    \/ ensure_git_identity
    \/ git_commit
    \/ record_promotion

PromoNext == PromoStep

\* one run of auto_promote.py
PromoSpec == Init /\ [][PromoNext]_vars

EvalStep ==
    \/ auto_promote_evaluate
    \/ evaluate_main

EvalNext == EvalStep

EvalInit ==
    /\ GitopsInit /\ PromoInit /\ EvalInputsInit /\ RenderIdle /\ SoectlIdle
    /\ RunsIdle /\ FlagIdle /\ SyncIdle

\* the two evaluators run on the same metrics files and policy document
EvalSpec == EvalInit /\ [][EvalNext]_vars

RenderStep ==
    \/ render_dir

RenderNext == RenderStep

RenderInit ==
    /\ GitopsInit /\ PromoInit /\ EvalIdle /\ RenderInputsInit /\ SoectlIdle
    /\ RunsIdle /\ FlagIdle /\ SyncIdle

\* render_manifests applied to one directory listing
RenderSpec == RenderInit /\ [][RenderNext]_vars

SoectlStep ==
    \/ summarize

SoectlNext == SoectlStep

SoectlInit ==
    /\ GitopsInit /\ PromoInit /\ EvalIdle /\ RenderIdle /\ SoectlInputsInit
    /\ RunsIdle /\ FlagIdle /\ SyncIdle

\* one overlay summary of soectl
SoectlSpec == SoectlInit /\ [][SoectlNext]_vars

RunsStep ==
    \/ \E r \in Runs : run_read_text(r)
    \/ \E r \in Runs : run_write_text(r)
    \/ \E r \in Runs : run_git_add(r)
    \/ \E r \in Runs : run_git_commit(r)

RunsNext == RunsStep

RunsInit ==
    /\ GitopsInit /\ PromoInit /\ EvalIdle /\ RenderIdle /\ SoectlIdle
    /\ RunsInputsInit /\ FlagIdle /\ SyncIdle

\* two auto_promote.py runs with an improved verdict on one overlay file
RunsSpec == RunsInit /\ [][RunsNext]_vars

FlagStep ==
    \/ flag_pair

FlagNext == FlagStep

FlagInit ==
    /\ GitopsInit /\ PromoInit /\ EvalIdle /\ RenderIdle /\ SoectlIdle /\ RunsIdle
    /\ FlagInputsInit /\ SyncIdle

\* two runs of auto_promote.py that differ in the policy's auto_promote flag
FlagSpec == FlagInit /\ [][FlagNext]_vars

SyncStep ==
    \/ sync_plan
    \/ sync_apply
    \/ sync_prune
    \/ sync_ok

SyncNext == SyncStep

SyncInit ==
    /\ GitopsInit /\ PromoInit /\ EvalIdle /\ RenderIdle /\ SoectlIdle /\ RunsIdle
    /\ FlagIdle /\ SyncInputsInit

\* one invocation of soectl sync
SyncSpec == SyncInit /\ [][SyncNext]_vars

\* ------------------------------------------------- reconciler properties

Done == pc = "done"

IsApply(c) == c.argv[1] = "apply"
IsPrune(c) == IsApply(c) /\ \E i \in DOMAIN c.argv : c.argv[i] = "--prune"
IsDryRun(c) == IsApply(c) /\ \E i \in DOMAIN c.argv : c.argv[i] = "--dry-run=server"

\* the required labels a document violates, read off the document itself
ViolatedKeys(doc) ==
    IF ~doc.dict THEN {}
    ELSE { k \in {PartOfKey, ManagedKey} :
             LET want == IF k = PartOfKey THEN "soe-eda-runner" ELSE "managed"
             IN  doc.meta # "dict" \/ k \notin DOMAIN doc.labels
                 \/ doc.labels[k] # want }

\* the error lines that stem from the document at position i
LinesOf(i) == { j \in DOMAIN errs : errs[j].doc = i }

\* the number of documents that carry both a kind and a name
NamedCount(docs) ==
    Cardinality({ i \in DOMAIN docs :
                    /\ docs[i].dict /\ docs[i].meta = "dict"
                    /\ Truthy(docs[i].kind) /\ Truthy(docs[i].name) })

StatusLines == { j \in DOMAIN out : out[j][1] = "status" }
SummaryLines == { j \in DOMAIN out : out[j][1] = "summary" }

\* a finished sync with pruning enabled and a usable selector that got as far
\* as its apply call
SyncPruneCase ==
    /\ Done /\ args.command = "sync" /\ args.enable_prune
    /\ Truthy(args.selector) /\ Len(calls) >= 1

C2_NoApplyBeforeFatalError ==
    (Done /\ errKind \in {"render", "config", "validation"}) =>
        \A i \in DOMAIN calls : ~IsApply(calls[i])

\* the prune verb, or the apply verb with pruning enabled, finished with an
\* empty or absent selector
PruneNoSelectorCase ==
    /\ Done
    /\ args.command = "prune" \/ (args.command = "apply" /\ args.enable_prune)
    /\ ~Truthy(args.selector)

\* C3: prune, or apply with pruning enabled, given an empty or absent selector
\* fails with a configuration error (once the manifest has rendered) and makes
\* zero cluster calls.
C3_PruneWithoutSelectorRefused ==
    PruneNoSelectorCase =>
        /\ calls = <<>>
        /\ exitCode # 0
        /\ errKind \in {"render", "config"}
        /\ Rendered.ok => errKind = "config"

C3_Witness ==
    /\ PruneNoSelectorCase /\ errKind = "config"
    /\ args.command = "apply" /\ args.selector = ""

\* a finished validate whose rendered manifest holds an offending resource
ValidateFailCase ==
    /\ Done /\ args.command = "validate" /\ Rendered.ok
    /\ \E i \in DOMAIN Rendered.manifest :
           ViolatedKeys(Rendered.manifest[i]) # {}

\* C4: validate on a manifest with an offending resource prints an error line
\* for every violated label of every resource, exits with a failure code and
\* makes no cluster call, not even the dry-run apply.
C4_ValidateStopsBeforeCluster ==
    ValidateFailCase =>
        /\ calls = <<>>
        /\ exitCode # 0
        /\ errKind = "validation"
        /\ \A i \in DOMAIN Rendered.manifest :
             \A k \in ViolatedKeys(Rendered.manifest[i]) :
               \E j \in LinesOf(i) : errs[j].key = k

C4_Witness ==
    /\ ValidateFailCase /\ Len(Rendered.manifest) = 2
    /\ ViolatedKeys(Rendered.manifest[1]) = {}
    /\ ViolatedKeys(Rendered.manifest[2]) # {}
    /\ errs # <<>>

\* a finished validate whose manifest rendered, so that validate_labels ran
ValidateRan == Done /\ args.command = "validate" /\ Rendered.ok

ErrsInManifestOrder ==
    \A a, b \in DOMAIN errs : a < b => errs[a].doc <= errs[b].doc

\* C5 as stated: the error list mentions every offending resource exactly
\* once, in manifest order.
C5_EachOffenderOnce ==
    ValidateRan =>
        /\ \A i \in DOMAIN Rendered.manifest :
             ViolatedKeys(Rendered.manifest[i]) # {}
                 => Cardinality(LinesOf(i)) = 1
        /\ ErrsInManifestOrder

\* C5 amended: the error list holds one line per violated required label of
\* every offending resource (two lines for a resource that violates both, in
\* the order of REQUIRED_LABELS), none for the others, in manifest order.
C5_OneLinePerViolatedLabel ==
    ValidateRan =>
        /\ \A i \in DOMAIN Rendered.manifest :
             /\ Cardinality(LinesOf(i))
                    = Cardinality(ViolatedKeys(Rendered.manifest[i]))
             /\ { errs[j].key : j \in LinesOf(i) }
                    = ViolatedKeys(Rendered.manifest[i])
        /\ \A j \in DOMAIN errs : errs[j].doc \in DOMAIN Rendered.manifest
        /\ ErrsInManifestOrder
        /\ \A a, b \in DOMAIN errs :
             (a < b /\ errs[a].doc = errs[b].doc)
                 => (errs[a].key = PartOfKey /\ errs[b].key = ManagedKey)

C5_Witness ==
    /\ ValidateRan /\ Len(Rendered.manifest) = 2
    /\ Cardinality(ViolatedKeys(Rendered.manifest[1])) = 1
    /\ Cardinality(ViolatedKeys(Rendered.manifest[2])) = 2
    /\ Len(errs) = 3

\* C6: every printed status is Same exactly when the resource's diff exited 0
\* and its get exited 0, Added exactly when its get exited 1, and Changed
\* exactly when its get exited 0 and its diff did not.
C6_StatusClassification ==
    args.command = "status" =>
        \A j \in StatusLines :
            LET d == calls[2 * j - 1]
                g == calls[2 * j]
                s == out[j][5]
            IN  /\ d.argv[1] = "diff" /\ g.argv[1] = "get"
                /\ d.rc \in {0, 1} /\ g.rc \in {0, 1}
                /\ (s = "Same") <=> (d.rc = 0 /\ g.rc = 0)
                /\ (s = "Added") <=> (g.rc = 1)
                /\ (s = "Changed") <=> (g.rc = 0 /\ d.rc # 0)

C6_Witness ==
    /\ args.command = "status" /\ Done
    /\ \E j \in StatusLines :
         /\ out[j][5] = "Added" /\ calls[2 * j - 1].rc = 1
    /\ \E j \in StatusLines :
         /\ out[j][5] = "Added" /\ calls[2 * j - 1].rc = 0

\* a status invocation that ran to its end without a cluster error
StatusCompleted ==
    Done /\ args.command = "status" /\ Rendered.ok /\ errKind = "none"

\* C7: when status completes, Added + Changed + Same equals the number of
\* resources that have both kind and name; the others are not counted and
\* duplicate identities count separately.
C7_CountsSumToNamed ==
    StatusCompleted =>
        /\ status_counts.Added + status_counts.Changed + status_counts.Same
               = NamedCount(Rendered.manifest)
        /\ Cardinality(StatusLines) = NamedCount(Rendered.manifest)
        /\ \A j \in SummaryLines :
               /\ j = Len(out)
               /\ out[j][2] + out[j][3] + out[j][4]
                      = NamedCount(Rendered.manifest)

C7_Witness ==
    /\ StatusCompleted /\ Len(Rendered.manifest) = 2
    /\ Rendered.manifest[1] = Rendered.manifest[2]
    /\ NamedCount(Rendered.manifest) = 2
    /\ SummaryLines # {}

\* a status invocation ended by an unexpected exit code of diff or get
StatusAborted == Done /\ args.command = "status" /\ errKind = "cluster"

\* C8 as stated: when diff or get returns an exit code other than 0 or 1 the
\* output holds no status line, also none of the resources classified before,
\* and no summary line.
C8_AbortDiscardsOutput ==
    StatusAborted => (StatusLines = {} /\ SummaryLines = {})

\* C8 amended: the classification aborts at that call with that exit code and
\* prints no summary line; the status lines of the resources classified
\* before are already printed and stay in the output.
C8_AbortKeepsPrintedLines ==
    StatusAborted =>
        /\ exitCode = calls[Len(calls)].rc
        /\ exitCode \notin {0, 1}
        /\ \A i \in 1..(Len(calls) - 1) : calls[i].rc \in {0, 1}
        /\ SummaryLines = {}
        /\ Cardinality(StatusLines) = (Len(calls) - 1) \div 2
        /\ StatusLines = DOMAIN out

C8_Witness ==
    /\ StatusAborted /\ Len(out) = 1 /\ out[1][1] = "status"
    /\ calls[Len(calls)].argv[1] = "get"

\* -------------------------------------------------- promotion properties

PDone == ppc = "done"

Started == ppc # "init"

\* the file exists and holds none of MODEL_PATH, MODEL_FORMAT, MODEL_META_PATH
NoExpectedKeys(f) ==
    /\ f.exists
    /\ f.MODEL_PATH.st = "absent"
    /\ f.MODEL_FORMAT.st = "absent"
    /\ f.MODEL_META_PATH.st = "absent"

NothingStaged == index = MissingFile

\* C9: with an improved verdict and a target file that holds none of the
\* expected keys, the run fails, the file keeps its content, and nothing is
\* staged, committed or uploaded.
C9_NoKeysNothingChanged ==
    (Started /\ verdict.improved /\ NoExpectedKeys(pin.file0)) =>
        /\ file = pin.file0
        /\ NothingStaged
        /\ commits = <<>>
        /\ store = <<>>
        /\ plog = <<>>
        /\ ppc \in {"update", "done"}
        /\ PDone => (pexit # 0 /\ perr = "config")

C9_Witness ==
    /\ PDone /\ verdict.improved /\ NoExpectedKeys(pin.file0)
    /\ pexit = 1 /\ pin.model_uri.scheme = "s3"

StepOrder == <<"write", "stage", "identity", "commit", "provenance">>

IsPrefix(a, b) == Len(a) <= Len(b) /\ \A i \in DOMAIN a : a[i] = b[i]

\* C10: the effects of a promotion run occur in the order write, stage,
\* identity, commit, provenance; at most one provenance record is written and
\* only after the commit was made; the commit is made only after the file was
\* patched and staged, and holds the patched content.
C10_PromotionStepOrder ==
    /\ IsPrefix(plog, StepOrder)
    /\ Len(store) <= 1
    /\ Len(commits) <= 1
    /\ store # <<>> => (commits # <<>> /\ plog = StepOrder)
    /\ commits # <<>> =>
          /\ SubSeq(plog, 1, 4) = SubSeq(StepOrder, 1, 4)
          /\ commits[1].content = file
          /\ index = file
          /\ file # pin.file0
          /\ commits[1].message = pin.model_uri
    /\ index # MissingFile => (index = file /\ file # pin.file0)

C10_Witness ==
    /\ PDone /\ plog = StepOrder /\ Len(store) = 1 /\ Len(commits) = 1
    /\ pin.name0 = None


\* the provenance upload was attempted and did not store the record: either
\* the failure was printed, or the run died inside record_promotion
UploadFailed ==
    /\ PDone
    /\ \/ perr = "provenance"
       \/ \E i \in DOMAIN pnotes : pnotes[i] = "failed to upload"

\* the commit made before the upload and the patched file are still there
CommitAndPatchKept ==
    /\ Len(commits) = 1
    /\ commits[1].content = file
    /\ file = patched(pin.file0, pin.model_uri, model_format_of(pin.model_uri),
                      metadata_uri_of(pin.model_uri))

\* C11: a run whose provenance upload failed after the commit still ends
\* with exit 0 and the success message, with the commit and the patched file
\* kept; a run that an earlier external failure ended (file, git) exits
\* non-zero without the success message.
C11_UploadFailureNotFatal ==
    /\ UploadFailed =>
         pexit = 0 /\ pout = FinalMessage /\ CommitAndPatchKept /\ store = <<>>
    /\ (PDone /\ perr \in {"io", "config", "git"}) =>
         pexit # 0 /\ pout = "" /\ store = <<>>


\* C12: a run whose verdict is not improved prints "NOT IMPROVED: no
\* promotion", exits 0, and leaves the overlay file, the git index and
\* history, the git identity and the provenance store as they were.
C12_NotImprovedChangesNothing ==
    (Started /\ ~verdict.raised /\ ~verdict.improved) =>
        /\ PDone
        /\ pout = "NOT IMPROVED: no promotion"
        /\ pexit = 0
        /\ perr = "none"
        /\ file = pin.file0
        /\ NothingStaged
        /\ commits = <<>>
        /\ user_name = pin.name0
        /\ user_email = pin.email0
        /\ store = <<>>
        /\ plog = <<>>
        /\ pnotes = <<>>

\* a negative verdict on two non-empty snapshots, with a patchable file and
\* no git identity configured: everything a promotion would have changed
C12_Witness ==
    /\ PDone
    /\ ~verdict.raised /\ ~verdict.improved
    /\ pin.current # EmptyMap
    /\ pin.candidate # EmptyMap
    /\ ~NoExpectedKeys(pin.file0)
    /\ pin.name0 = None
    /\ pin.model_uri.scheme = "s3"


\* a finished plan whose manifest rendered
PlanCase == Done /\ args.command = "plan" /\ Rendered.ok

\* C19: plan issues exactly one call, a diff fed the whole manifest; a diff
\* exit code of 0 or 1 ends the verb with success, any other exit code ends
\* it with that same exit code.
C19_PlanExitCodes ==
    PlanCase =>
        /\ Len(calls) = 1
        /\ calls[1].argv = <<"diff", "-f", "-">>
        /\ calls[1].input = Rendered.manifest
        /\ IF calls[1].rc \in {0, 1}
           THEN exitCode = 0 /\ errKind = "none"
           ELSE exitCode = calls[1].rc /\ errKind = "cluster"

\* a plan whose diff reported differences (exit code 1) on a manifest of
\* several documents
C19_Witness ==
    PlanCase /\ Len(Rendered.manifest) = MaxDocs /\ calls[1].rc = 1

\* a finished apply whose argument vector could be built, or a finished sync
\* with pruning disabled, once the manifest rendered
PlainApplyCase ==
    /\ Done /\ Rendered.ok
    /\ \/ args.command = "apply" /\ build_apply_args(args, args.enable_prune).ok
       \/ args.command = "sync" /\ ~args.enable_prune

\* C20: apply, and sync with pruning disabled, issue exactly one apply call
\* fed the whole manifest, and the invocation's exit status is that call's
\* exit code.
C20_ApplyMirrorsExitCode ==
    PlainApplyCase =>
        /\ Len(calls) = 1
        /\ IsApply(calls[1])
        /\ calls[1].argv =
             build_apply_args(args, args.command = "apply" /\ args.enable_prune).argv
        /\ calls[1].input = Rendered.manifest
        /\ exitCode = calls[1].rc
        /\ errKind = (IF calls[1].rc = 0 THEN "none" ELSE "cluster")

\* a sync with pruning disabled whose apply call exited with a code above 1
C20_Witness ==
    /\ PlainApplyCase /\ args.command = "sync"
    /\ Len(Rendered.manifest) = MaxDocs /\ calls[1].rc = 2


\* ------------------------------------------------- evaluator properties

\* the snapshots the two programs loaded from the metrics files
LoadedCurrent == load_metrics(ein.current)
LoadedCandidate == load_metrics(ein.candidate)

\* the evaluations made so far: auto_promote.py's and evaluate.py's
Evaluations == { e \in {promo_eval, pipeline_eval} : e.done }

ThresholdKeys == {"r2_min_gain", "rmse_min_drop"}

\* a snapshot's metrics with the defaults for missing fields: 0.0 for r2 and
\* +infinity for rmse
R2Of(m) == IF "r2" \in DOMAIN m THEN Fin(m["r2"]) ELSE Fin(0)
RmseOf(m) == IF "rmse" \in DOMAIN m THEN Fin(m["rmse"]) ELSE PosInf

\* the two conditions of the policy, on the thresholds evaluation e loaded
GainReached(e) ==
    XGe(XSub(R2Of(LoadedCandidate), R2Of(LoadedCurrent)),
        ToFloat(e.thresholds["r2_min_gain"]))
DropReached(e) ==
    XGe(XSub(RmseOf(LoadedCurrent), RmseOf(LoadedCandidate)),
        ToFloat(e.thresholds["rmse_min_drop"]))

\* C13: on two non-empty snapshots evaluate answers improved exactly when
\* the r2 gain reaches r2_min_gain and the rmse drop reaches rmse_min_drop;
\* one condition alone gives a negative verdict.  (Where float() rejects a
\* threshold auto_promote.py's evaluate raises and gives no verdict.)
C13_ImprovedIffBothConditions ==
    \A e \in Evaluations :
        (LoadedCurrent # EmptyMap /\ LoadedCandidate # EmptyMap
         /\ ~e.verdict.raised) =>
            e.verdict.improved = (GainReached(e) /\ DropReached(e))

\* both programs turned down a candidate whose r2 gain reaches the
\* threshold while its rmse drop does not
C13_Witness ==
    /\ promo_eval.done /\ pipeline_eval.done
    /\ LoadedCurrent # EmptyMap /\ LoadedCandidate # EmptyMap
    /\ "rmse" \in DOMAIN LoadedCandidate /\ "rmse" \in DOMAIN LoadedCurrent
    /\ GainReached(promo_eval) /\ ~DropReached(promo_eval)
    /\ ~promo_eval.verdict.raised /\ ~promo_eval.verdict.improved
    /\ ~pipeline_eval.verdict.improved

CandidateUnavailable == <<Reason("candidate metrics unavailable", Fin(0))>>
NoCurrentModel == <<Reason("no current model", Fin(0))>>

\* C14: with an empty candidate snapshot evaluate answers not improved with
\* the reason "candidate metrics unavailable", whatever the current snapshot
\* and the thresholds are, an empty current snapshot included.
C14_EmptyCandidateNeverImproved ==
    \A e \in Evaluations :
        LoadedCandidate = EmptyMap =>
            /\ ~e.verdict.raised
            /\ ~e.verdict.improved
            /\ e.verdict.reasons = CandidateUnavailable

\* both snapshots empty, and a policy document with a text for a threshold
C14_Witness ==
    /\ promo_eval.done /\ pipeline_eval.done
    /\ LoadedCandidate = EmptyMap /\ LoadedCurrent = EmptyMap
    /\ ein.candidate.exists /\ ~ein.current.exists
    /\ ein.policy.exists /\ "r2_min_gain" \in DOMAIN ein.policy.thresholds
    /\ ein.policy.thresholds["r2_min_gain"] = YStr(Unparsable)

\* C15: with a non-empty candidate and an empty current snapshot (a current
\* metrics file that does not exist included) evaluate answers improved with
\* the reason "no current model", whatever the candidate's values and the
\* thresholds are.
C15_NoCurrentAlwaysPromotes ==
    \A e \in Evaluations :
        (LoadedCandidate # EmptyMap /\ LoadedCurrent = EmptyMap) =>
            /\ ~e.verdict.raised
            /\ e.verdict.improved
            /\ e.verdict.reasons = NoCurrentModel

\* no current metrics file, a candidate without r2, thresholds no delta
\* can reach
C15_Witness ==
    /\ promo_eval.done /\ pipeline_eval.done
    /\ ~ein.current.exists
    /\ LoadedCandidate = ("rmse" :> 600)
    /\ ein.policy.exists
    /\ ein.policy.thresholds =
         ("r2_min_gain" :> YNum(NaN)) @@ ("rmse_min_drop" :> YNum(NaN))

\* C16: a non-empty snapshot compared with itself is judged improved only
\* when both thresholds are <= 0.
C16_EqualSnapshotsNeedNonPositiveThresholds ==
    \A e \in Evaluations :
        (LoadedCurrent # EmptyMap /\ LoadedCandidate = LoadedCurrent
         /\ e.verdict.improved) =>
            \A k \in ThresholdKeys : XGe(Fin(0), ToFloat(e.thresholds[k]))

\* a snapshot promoted over itself under thresholds of 0 and -100
C16_Witness ==
    /\ promo_eval.done
    /\ LoadedCurrent = Snapshot(80, 600) /\ LoadedCandidate = LoadedCurrent
    /\ promo_eval.verdict.improved
    /\ promo_eval.thresholds["r2_min_gain"] = YNum(Fin(0))
    /\ promo_eval.thresholds["rmse_min_drop"] = YNum(Fin(0 - DefaultRmseMinDrop))

\* C17: a non-empty candidate without an rmse field is never judged improved
\* against a non-empty current snapshot, under every threshold policy.
C17_MissingRmseNeverImproves ==
    \A e \in Evaluations :
        (LoadedCurrent # EmptyMap /\ LoadedCandidate # EmptyMap
         /\ "rmse" \notin DOMAIN LoadedCandidate) =>
            ~e.verdict.improved

\* what the loaded threshold k has to be: the document's value if the
\* document has a numeric one, else the built-in default
ExpectedThreshold(k) ==
    IF /\ ein.policy.exists
       /\ k \in DOMAIN ein.policy.thresholds
       /\ ein.policy.thresholds[k].t = "num"
    THEN ein.policy.thresholds[k]
    ELSE YNum(Fin(IF k = "r2_min_gain" THEN DefaultR2MinGain
                  ELSE DefaultRmseMinDrop))

\* C18: each threshold of the loaded policy is the document's value if that
\* value is numeric and the built-in default otherwise (field missing, value
\* not numeric, document absent), in auto_promote.py as in evaluate.py.
C18_NumericValuesOverrideDefaults ==
    \A e \in Evaluations : \A k \in ThresholdKeys :
        e.thresholds[k] = ExpectedThreshold(k)

\* ------------------------------------------------- reconciler properties,
\* continued

\* a finished validate on a rendered manifest all of whose resources carry
\* the required labels
ValidatePassCase ==
    /\ ValidateRan
    /\ \A i \in DOMAIN Rendered.manifest : ViolatedKeys(Rendered.manifest[i]) = {}

\* C21: when every resource passes the label check, validate makes exactly
\* one cluster call, a server-side dry-run apply fed the whole manifest, and
\* the verb's exit status is that call's exit code.
C21_ValidateDryRunOnce ==
    ValidatePassCase =>
        /\ errs = <<>>
        /\ Len(calls) = 1
        /\ calls[1].argv = <<"apply", "--dry-run=server", "-f", "-">>
        /\ calls[1].input = Rendered.manifest
        /\ exitCode = calls[1].rc
        /\ errKind = (IF calls[1].rc = 0 THEN "none" ELSE "cluster")

\* a manifest of several labelled resources whose dry run the cluster
\* rejected
C21_Witness ==
    /\ ValidatePassCase /\ Len(Rendered.manifest) = MaxDocs
    /\ \A i \in DOMAIN Rendered.manifest : Rendered.manifest[i].dict
    /\ calls[1].rc = 2

\* ------------------------------------------------- promotion properties,
\* continued

\* C22: a user.name or user.email configured before the promotion run is
\* never overwritten by it, whichever of the two were configured.
C22_IdentityNeverOverwritten ==
    Started =>
        /\ (pin.name0 # None => user_name = pin.name0)
        /\ (pin.email0 # None => user_email = pin.email0)

\* a promotion run that went through: improved verdict, exit 0
PromotionSucceeded == PDone /\ pexit = 0 /\ verdict.improved

\* C23: a successful promotion patches the file and commits whatever the
\* URI's scheme is; for a URI that is not an s3 URI nothing is uploaded, and
\* for an s3 URI the record goes to <artifact-directory>/promotion.json in
\* the URI's bucket.
C23_ProvenanceOnlyForS3 ==
    PromotionSucceeded =>
        /\ CommitAndPatchKept
        /\ Len(store) <= 1
        /\ IF pin.model_uri.scheme # "s3"
           THEN store = <<>>
           ELSE \A i \in DOMAIN store :
                  /\ store[i].bucket = pin.model_uri.bucket
                  /\ store[i].key = pin.model_uri.dir \o <<"promotion.json">>

\* ------------------------------------------------- rendering properties

\* the manifest files of the listed directory
ManifestFiles == { dir_listing[i] : i \in DOMAIN dir_listing } \cap GlobMatches

\* C24: a rendered directory is the texts of its matching files in
\* lexicographic file name order with the document separator between them,
\* whatever the listing order was; without a matching file rendering fails.
C24_DirectoryInNameOrder ==
    dir_rendered.done =>
        IF ManifestFiles = {}
        THEN ~dir_rendered.ok /\ dir_rendered.code # 0
        ELSE LET t == dir_rendered.text
                 n == Cardinality(ManifestFiles)
             IN  /\ dir_rendered.ok
                 /\ Len(t) = 2 * n - 1
                 /\ \A i \in 1..n : t[2 * i - 1] \in ManifestFiles
                 /\ \A i \in 1..(n - 1) :
                      /\ t[2 * i] = DocumentSeparator
                      /\ NameRank(t[2 * i - 1]) < NameRank(t[2 * i + 1])

\* b.yml listed before a.yaml, with a file the pattern does not match in
\* between, rendered as a.yaml, separator, b.yml
C24_Witness ==
    /\ dir_rendered.done
    /\ dir_listing = <<"b.yml", "notes.txt", "a.yaml">>
    /\ dir_rendered.text = <<"a.yaml", DocumentSeparator, "b.yml">>

\* ------------------------------------------------- soectl properties

\* the entries of namespace ns, read off the input manifest
EntriesIn(ns) ==
    LET docs == soe_in.docs
        IsIn(d) == d.ns = ns
        picked == SelectSeq(docs, IsIn)
    IN  [i \in DOMAIN picked |-> <<picked[i].kind, picked[i].name>>]

\* C25: without a kustomize binary and with kubectl, the summary runs exactly
\* one command, "<kubectl> kustomize <overlay>", and groups the "Kind/name"
\* entries by namespace; with none of kustomize, kubectl and oc no command
\* is run and the summary is empty.
C25_SummaryRenderer ==
    soe_out.done =>
        /\ (~soe_in.installed["kustomize"] /\ soe_in.installed["kubectl"]) =>
             /\ soe_out.commands =
                  <<<<ToolPath("kubectl"), "kustomize", TheOverlay>>>>
             /\ DOMAIN soe_out.summary =
                  { soe_in.docs[i].ns : i \in DOMAIN soe_in.docs }
             /\ \A ns \in DOMAIN soe_out.summary :
                  soe_out.summary[ns] = EntriesIn(ns)
        /\ (\A n \in ToolNames : ~soe_in.installed[n]) =>
             /\ soe_out.commands = <<>>
             /\ soe_out.summary = NoSummary

\* kubectl and oc both installed, kustomize not, and resources in two
\* namespaces
C25_Witness ==
    /\ soe_out.done
    /\ ~soe_in.installed["kustomize"]
    /\ soe_in.installed["kubectl"] /\ soe_in.installed["oc"]
    /\ Cardinality(DOMAIN soe_out.summary) = 2

\* ------------------------------------------------- reconciler properties,
\* cluster calls

\* the exit codes a verb treats as a failure of the call: anything but 0 and
\* 1 for diff and get, anything but 0 for apply
FailedCall(c) ==
    IF c.argv[1] \in {"diff", "get"} THEN c.rc \notin {0, 1} ELSE c.rc # 0

SameCall(c, d) == c.argv = d.argv /\ c.input = d.input

\* C26: a failed cluster call is the last call of its invocation: the
\* invocation ends there with the call's exit code, so the call is never
\* issued again and nothing is called after it.
C26_NoRetryAfterFailure ==
    \A i \in DOMAIN calls :
        FailedCall(calls[i]) =>
            /\ i = Len(calls)
            /\ Done
            /\ exitCode = calls[i].rc
            /\ errKind = "cluster"
            /\ \A j \in DOMAIN calls : j # i => ~FailedCall(calls[j])

\* a status run that fails at the diff of its second resource, after the
\* two calls for the first one
C26_Witness ==
    /\ Done /\ args.command = "status"
    /\ Len(calls) = 3
    /\ calls[3].argv[1] = "diff" /\ FailedCall(calls[3])

\* ------------------------------------------------- two promotion runs:
\* properties

\* the committed file points to the artifact the commit message names
CommitMatches(c) == c.content.MODEL_PATH = QuotedUri(c.message)

NamedResources ==
    SelectSeq(kind_resources(Rendered.manifest),
              LAMBDA d : d.meta # "null" /\ Truthy(d.name))

\* call k of a status run is call number 1 (diff) or 2 (get) of resource
\* (k + 1) \div 2
DiffOf(c, r) == c.argv = <<"diff", "-f", "-">> /\ c.input = <<r>>
GetOf(c, r) ==
    /\ Len(c.argv) >= 3
    /\ c.argv[1] = "get" /\ c.argv[2] = r.kind /\ c.argv[3] = r.name

StatusRan == args.command = "status" /\ pc # "init" /\ Rendered.ok

\* C28: in status the calls come in manifest order, diff then get per named
\* resource, each pair complete before the next resource's first call; a run
\* that succeeds makes exactly 2 calls per named resource; after an
\* unexpected exit code (of a diff in particular) no further call is made.
C28_StatusCallsSequential ==
    StatusRan =>
        /\ Len(calls) <= 2 * Len(NamedResources)
        /\ \A k \in DOMAIN calls :
             LET r == NamedResources[(k + 1) \div 2]
             IN  /\ IF k % 2 = 1 THEN DiffOf(calls[k], r)
                                 ELSE GetOf(calls[k], r)
                 /\ calls[k].rc \notin {0, 1} => k = Len(calls)
        /\ StatusCompleted => Len(calls) = 2 * Len(NamedResources)
        /\ (StatusAborted /\ Len(calls) % 2 = 1) =>
               /\ calls[Len(calls)].rc \notin {0, 1}
               /\ exitCode = calls[Len(calls)].rc

\* a completed status of two different named resources: four calls; and the
\* state is one where the first pair came before the second
C28_Witness ==
    /\ StatusCompleted
    /\ Len(NamedResources) = 2
    /\ NamedResources[1] # NamedResources[2]
    /\ Len(calls) = 4
    /\ DiffOf(calls[3], NamedResources[2])

\* ------------------------------------------------- read-only verbs

\* a call that changes cluster state: an apply that is not a dry run
Mutating(c) == IsApply(c) /\ ~IsDryRun(c)

Verb(c) == c.argv[1]

ReadOnlyCommands == {"render", "plan", "status", "validate"}

\* C29: render makes no cluster call, plan only diff calls, status only diff
\* and get calls, validate only apply calls with --dry-run=server; a mutating
\* apply is only ever issued by apply, prune or sync.
C29_ReadOnlyVerbsNeverMutate ==
    /\ args.command = "render" => calls = <<>>
    /\ args.command = "plan" =>
           \A k \in DOMAIN calls : Verb(calls[k]) = "diff"
    /\ args.command = "status" =>
           \A k \in DOMAIN calls : Verb(calls[k]) \in {"diff", "get"}
    /\ args.command = "validate" =>
           \A k \in DOMAIN calls : IsDryRun(calls[k])
    /\ \A k \in DOMAIN calls :
           Mutating(calls[k]) => args.command \in {"apply", "prune", "sync"}

\* validate went as far as the cluster and its dry run was accepted
C29_Witness ==
    /\ args.command = "validate" /\ pc = "done" /\ exitCode = 0
    /\ Len(calls) = 1 /\ IsDryRun(calls[1]) /\ ~Mutating(calls[1])

\* ------------------------------------------------- sync: a failing prune

HasPruneFlag(c) == IsApply(c) /\ \E i \in DOMAIN c.argv : c.argv[i] = "--prune"

\* sync with pruning enabled: the apply succeeded and a prune call failed
SyncPruneFailed ==
    /\ args.command = "sync" /\ args.enable_prune
    /\ Len(calls) >= 2
    /\ Mutating(calls[1]) /\ ~HasPruneFlag(calls[1]) /\ calls[1].rc = 0
    /\ \E k \in DOMAIN calls : HasPruneFlag(calls[k]) /\ calls[k].rc # 0

\* C30: in sync with pruning, after a successful apply and a failed prune
\* call the verb has ended with the prune call's exit code, and the call log
\* is the apply followed by the prune call: nothing was issued after the
\* failure to undo the apply.
C30_FailedPruneKeepsApply ==
    SyncPruneFailed =>
        /\ pc = "done"
        /\ Len(calls) = 2
        /\ HasPruneFlag(calls[2])
        /\ calls[1].input = Rendered.manifest
        /\ calls[2].input = Rendered.manifest
        /\ exitCode = calls[2].rc
        /\ errKind = "cluster"

\* a server-side sync of a full manifest whose prune call exited 2
C30_Witness ==
    /\ SyncPruneFailed
    /\ args.server_side
    /\ Len(Rendered.manifest) = MaxDocs
    /\ calls[2].rc = 2 /\ exitCode = 2

\* ------------------------------------------------- promotion properties:
\* the patch step

\* the file exists and holds at least one of the expected keys
HasExpectedKey(f) == f.exists /\ ~NoExpectedKeys(f)

\* the run got past update_configmap's check and wrote the file
Patched == plog # <<>> /\ plog[1] = "write"

\* C31: with an improved verdict and a target file holding an expected key,
\* the patch step succeeds (the file is written and the run goes on to git
\* add), also when the file already holds the values being written.
C31_PatchSucceedsWithExpectedKey ==
    (Started /\ ~verdict.raised /\ verdict.improved
        /\ HasExpectedKey(pin.file0) /\ ppc # "update") =>
        Patched /\ perr # "config"

\* ------------------------------------------------- promotion properties:
\* the committed file

\* C32: every commit of a promotion run holds a file whose MODEL_PATH is the
\* artifact URI the commit message names and whose MODEL_FORMAT, where the
\* file has the key, is the format of that URI ("onnx" for a name ending in
\* .onnx whatever the case, else "pkl"); no commit is made of a file whose
\* MODEL_PATH was not set to the URI.
C32_CommitPointsToArtifact ==
    \A i \in DOMAIN commits :
        LET c == commits[i]
        IN  /\ c.content.MODEL_PATH = QuotedUri(c.message)
            /\ c.content.MODEL_FORMAT.st = "quoted" =>
                   c.content.MODEL_FORMAT.fmt = model_format_of(c.message)

\* ------------------------------------------------- promotion properties:
\* a failing git command

\* the run was ended by a failing git command (git add, git config, git commit)
GitFailed == PDone /\ perr = "git"

\* C33: a run ended by a failing git command after the file was written exits
\* non-zero, has made no commit and written no provenance record, and leaves
\* the overlay file with the patched content, different from the committed
\* version the run started from.
C33_GitFailureKeepsPatchedFile ==
    GitFailed =>
        /\ pexit # 0
        /\ pout = ""
        /\ store = <<>>
        /\ commits = <<>>
        /\ Patched
        /\ file = patched(pin.file0, pin.model_uri,
                          model_format_of(pin.model_uri),
                          metadata_uri_of(pin.model_uri))
        /\ file # pin.file0

\* git commit failed after the file was written and staged
C33_Witness ==
    /\ GitFailed
    /\ plog = <<"write", "stage", "identity">>
    /\ index = file
    /\ pin.file0.MODEL_PATH.st = "quoted"

\* ------------------------------------------------- the auto_promote flag:
\* properties

\* everything a run leaves behind except what it printed last
Effects(r) == [r EXCEPT !.pout = ""]

\* C34: for the same inputs and the same outcomes of the external commands,
\* the run with auto_promote true and the run with auto_promote false write
\* the same file, stage and commit the same, upload the same provenance
\* record and end with the same exit code; when the promotion goes through
\* they print "IMPROVED: promotion committed" and the "awaiting manual
\* approval" variant, and otherwise print the same.
C34_FlagOnlyChangesMessage ==
    flag_out.done =>
        /\ Effects(flag_out.on) = Effects(flag_out.off)
        /\ IF flag_out.on.pexit = 0 /\ flag_out.on.commits # <<>>
           THEN /\ flag_out.on.pout = "IMPROVED: promotion committed"
                /\ flag_out.off.pout =
                     "IMPROVED: promotion committed (awaiting manual approval)"
           ELSE flag_out.on.pout = flag_out.off.pout

\* both runs went through, with a provenance record stored
C34_Witness ==
    /\ flag_out.done
    /\ flag_out.on.pexit = 0 /\ flag_out.off.pexit = 0
    /\ Len(flag_out.on.commits) = 1 /\ Len(flag_out.off.commits) = 1
    /\ Len(flag_out.on.store) = 1 /\ Len(flag_out.off.store) = 1
    /\ flag_out.on.pout # flag_out.off.pout

\* ------------------------------------------------- the two evaluators:
\* agreement

BothEvaluated == promo_eval.done /\ pipeline_eval.done

\* C35: on the same current snapshot, candidate snapshot and policy document
\* the promotion executor's evaluate and the pipeline's evaluate return the
\* same improved flag and the same reasons.
C35_EvaluatorsAgree ==
    BothEvaluated =>
        /\ ~promo_eval.verdict.raised
        /\ promo_eval.verdict.improved = pipeline_eval.verdict.improved
        /\ promo_eval.verdict.reasons = pipeline_eval.verdict.reasons

\* ------------------------------------------------- soectl sync: properties

\* the gitops-lite verbs soectl sync has invoked so far, in order
VerbsRun == [i \in DOMAIN sync_st.cmds |-> sync_st.cmds[i].argv[1]]

ExpectedVerbs ==
    IF sync_in.prune THEN <<"plan", "apply", "prune">> ELSE <<"plan", "apply">>

SelectorOf(argv) ==
    IF \E i \in 1..(Len(argv) - 1) : argv[i] = "--selector"
    THEN argv[(CHOOSE i \in 1..(Len(argv) - 1) : argv[i] = "--selector") + 1]
    ELSE None

SyncOver == sync_st.pc = "done"

\* C36: soectl sync invokes plan, then apply, then prune (only with --prune,
\* and with the selector gitops-lite=managed), each once and in that order;
\* whatever exit codes the steps return it goes on to the next step, and it
\* ends by printing "Sync OK".
C36_SyncRunsEveryStep ==
    /\ IsPrefix(VerbsRun, ExpectedVerbs)
    /\ \A i \in DOMAIN sync_st.cmds :
           SelectorOf(sync_st.cmds[i].argv) =
               (IF VerbsRun[i] = "prune" THEN "gitops-lite=managed" ELSE None)
    /\ SyncOver =>
           /\ VerbsRun = ExpectedVerbs
           /\ sync_st.out[Len(sync_st.out)] = "Sync OK"
           /\ sync_st.exit = 0

\* a sync with --prune all of whose three steps failed
C36_Witness ==
    /\ SyncOver /\ sync_in.prune
    /\ Len(sync_st.cmds) = 3
    /\ \A i \in DOMAIN sync_st.cmds : sync_st.cmds[i].rc # 0
    /\ sync_st.out = <<"Plan", "Apply", "Prune", "Sync OK">>

====
